---- MODULE Spec2Model ----
(***************************************************************************)
(* Blind Spot: the analysis engine (analysisEngine.ts), the cultural       *)
(* adjustment of the heuristics layer (advancedBehavioralAnalysis.ts), the *)
(* report generator entry point (forensicReportService.ts) and the JSON    *)
(* export filter (exportService).                                          *)
(*                                                                         *)
(* Numbers.  Confidences are held in permille (0.95 is 950), weights in    *)
(* percent (0.25 is 25), so a trust vector is held in 1/100000 (0.9 is     *)
(* 90000).  Arithmetic is exact; the rounding of IEEE doubles is not       *)
(* modelled.  A value that is not of type number is NotANumber.            *)
(***************************************************************************)
EXTENDS Integers, Sequences, FiniteSets, TLC

(***************************************************************************)
(* State                                                                   *)
(***************************************************************************)

\* The pure functions' argument and results (SpecSignals).
VARIABLES fnSignals, fnPc, fnTrust, fnAlerts

fnVars == <<fnSignals, fnPc, fnTrust, fnAlerts>>

\* The analysis engine and the session it runs (Spec).
VARIABLES
    connected,      \* each service's `connected` getter
    sessionId,      \* AnalysisEngine.sessionId: its prefix, without the Date.now() part
    recording,      \* mediaService holds a recorder that is recording
    startPreset,    \* the contextPreset given to the startLiveAnalysis of the live session
    pc,             \* where the running session stands
    entry,          \* the entry point of the running session
    mediaData,      \* typeof mediaData: "string" or "object"
    contextPreset,  \* the contextPreset parameter of the analysis
    signals, timeline, alerts,      \* the locals of the analysis
    posturalData,   \* the output of googleVideoService.analyzeVideo
    analysisData,   \* the scalar fields of analysisData
    failed,         \* the adapter operations that failed in the call
    invoked,        \* how often each adapter operation was called
    returned,       \* "none", "null" or "result"
    result,         \* the AnalysisResult the entry point returned
    forensicReport  \* the ForensicReport the UI generated from it

engineVars ==
    <<connected, sessionId, recording, startPreset, pc, entry, mediaData,
      contextPreset, signals, timeline, alerts, posturalData, analysisData,
      invoked, failed, returned, result,
      forensicReport>>

\* initializeServices and the adapters' initialize() (SpecInit).
VARIABLES
    initPc,         \* where initializeServices stands
    promise,        \* the promise each adapter's initialize() returned
    isInitialized,  \* each adapter's isInitialized field
    stuck,          \* the adapter, if any, whose initialize() never settles
    status          \* what initializeServices resolved to

initVars == <<initPc, promise, isInitialized, stuck, status>>

\* Concurrent startLiveAnalysis and stopLiveAnalysis calls (SpecLive).
VARIABLES
    calls,              \* the calls begun so far: the operation and where it stands
    analysisInterval,   \* AnalysisEngine.analysisInterval: a timer handle, 0 for null
    timers,             \* the handles of the intervals that are scheduled
    stream,             \* mediaService.stream is not null
    mediaRecorder,      \* mediaService.mediaRecorder: a recorder, 0 for null
    isRecording,        \* mediaService.isRecording
    onstop,             \* each recorder's onstop handler: the stop call it resolves
    stopPending,        \* the recorders whose stop event is still to fire
    quiet               \* a stop call has completed and no start call has begun since

liveVars ==
    <<calls, analysisInterval, timers, stream, mediaRecorder, isRecording, onstop,
      stopPending, quiet>>

\* applyCulturalContext and generateForensicReport on a caller's
\* AnalysisResult (SpecCulture).
VARIABLES
    cuSignals,      \* the signals object of the caller's AnalysisResult
    cuBefore,       \* what it held when the call was made
    cuTag,          \* the culture tag given, "undefined" when it is left out
    cuPc,           \* "ready", "applied" or "reported"
    cuRaised,       \* the call threw
    cuResult        \* the signals of the AnalysisResult that was returned

cultureVars == <<cuSignals, cuBefore, cuTag, cuPc, cuRaised, cuResult>>

\* exportReport on a caller's ForensicReport (SpecExport).
VARIABLES
    exReport,       \* the caller's ForensicReport
    exBefore,       \* what it held when the call was made
    exOptions,      \* the ExportOptions given
    exPc,           \* "ready" or "exported"
    exOutput        \* what was serialized: the members of the JSON text, or the report

exportVars == <<exReport, exBefore, exOptions, exPc, exOutput>>

\* generateCSVData on a ForensicReport (SpecCSV).
VARIABLES
    csvReport,      \* the ForensicReport given
    csvOptions,     \* the ExportOptions given
    csvPc,          \* "ready" or "generated"
    csvRows,        \* rows: each row as the fields that were joined
    csvData         \* the text returned

csvVars == <<csvReport, csvOptions, csvPc, csvRows, csvData>>

\* generateRecommendations on a summary judgment (SpecRecommendations).
VARIABLES
    recSummary,         \* the SummaryJudgment given: its two levels
    recPreset,          \* the contextPreset given
    recPc,              \* "ready" or "returned"
    recommendations     \* the list returned

recVars == <<recSummary, recPreset, recPc, recommendations>>

\* The analyses of the forensic report on an AnalysisResult (SpecReport).
VARIABLES
    arTimeline,     \* the timeline of the caller's AnalysisResult
    arSignals,      \* the signals of the caller's AnalysisResult
    arEngine,       \* the sorting algorithm of the JavaScript engine
    arPc,           \* "ready", or the analysis that has returned
    arPhases,       \* what analyzeMainPhases(extractPhases(...)) returned
    arBaseline,     \* what analyzeBaseline returned
    arSummary,      \* what generateSummaryJudgment returned
    arPatterns,     \* what analyzeTemporalPatterns returned
    arClusters,     \* what the first call of detectSignalClusters returned
    arClustersAgain \* what the second call returned

arVars ==
    <<arTimeline, arSignals, arEngine, arPc, arPhases, arBaseline, arSummary, arPatterns,
      arClusters, arClustersAgain>>

\* Sessions overlapping on the one engine instance (SpecSessions).
VARIABLES
    ssSessionId,    \* this.sessionId of the engine
    ssNow,          \* Date.now()
    ssStarted,      \* the session ids assigned so far, in the order of the starts
    ssCalls         \* per call of an entry point: kind, position, ids

ssVars == <<ssSessionId, ssNow, ssStarted, ssCalls>>

\* The google-vision edge function and the api_usage row of one user and
\* month (SpecUsage).
VARIABLES
    efRow,          \* the api_usage row of the user and month, or NoRow
    efRequests,     \* per request: position, what it read, its response
    efServed,       \* the number of requests answered with status 200
    efOverlapped,   \* a request was received while another was in flight
    efUpdateFailed  \* an upsert was answered with an error

efVars == <<efRow, efRequests, efServed, efOverlapped, efUpdateFailed>>

vars ==
    <<fnVars, engineVars, initVars, liveVars, cultureVars, exportVars, csvVars, recVars, arVars, ssVars, efVars>>

\* The variables a specification does not use stay as they are.
fnIdle == fnSignals = << >> /\ fnPc = "off" /\ fnTrust = 0 /\ fnAlerts = << >>

engineIdle ==
    /\ connected = << >> /\ sessionId = "" /\ recording = FALSE
    /\ startPreset = "" /\ pc = "off" /\ entry = "none" /\ mediaData = ""
    /\ contextPreset = "" /\ signals = << >> /\ timeline = << >> /\ alerts = << >>
    /\ posturalData = << >> /\ analysisData = << >> /\ invoked = << >>
    /\ failed = {} /\ returned = "none" /\ result = << >>
    /\ forensicReport = << >>

initIdle ==
    /\ initPc = "off" /\ promise = << >> /\ isInitialized = << >> /\ stuck = {}
    /\ status = << >>

liveIdle ==
    /\ calls = << >> /\ analysisInterval = 0 /\ timers = {} /\ stream = FALSE
    /\ mediaRecorder = 0 /\ isRecording = FALSE /\ onstop = << >> /\ stopPending = {}
    /\ quiet = FALSE

cultureIdle ==
    /\ cuSignals = << >> /\ cuBefore = << >> /\ cuTag = "" /\ cuPc = "off"
    /\ cuRaised = FALSE /\ cuResult = << >>

exportIdle ==
    /\ exReport = << >> /\ exBefore = << >> /\ exOptions = << >> /\ exPc = "off"
    /\ exOutput = << >>

csvIdle ==
    /\ csvReport = << >> /\ csvOptions = << >> /\ csvPc = "off" /\ csvRows = << >>
    /\ csvData = << >>

recIdle ==
    /\ recSummary = << >> /\ recPreset = "" /\ recPc = "off" /\ recommendations = << >>

arIdle ==
    /\ arTimeline = << >> /\ arSignals = << >> /\ arEngine = "" /\ arPc = "off"
    /\ arPhases = << >> /\ arBaseline = << >> /\ arSummary = << >>
    /\ arPatterns = << >> /\ arClusters = << >> /\ arClustersAgain = << >>

ssIdle ==
    /\ ssSessionId = << >> /\ ssNow = 0 /\ ssStarted = << >> /\ ssCalls = << >>

efIdle ==
    /\ efRow = << >> /\ efRequests = << >> /\ efServed = 0
    /\ efOverlapped = FALSE /\ efUpdateFailed = FALSE

notSignals ==
    <<engineVars, initVars, liveVars, cultureVars, exportVars, csvVars, recVars, arVars, ssVars, efVars>>

notEngine ==
    <<fnVars, initVars, liveVars, cultureVars, exportVars, csvVars, recVars, arVars, ssVars, efVars>>

notInit ==
    <<fnVars, engineVars, liveVars, cultureVars, exportVars, csvVars, recVars, arVars, ssVars, efVars>>

notLive ==
    <<fnVars, engineVars, initVars, cultureVars, exportVars, csvVars, recVars, arVars, ssVars, efVars>>

notCulture ==
    <<fnVars, engineVars, initVars, liveVars, exportVars, csvVars, recVars, arVars, ssVars, efVars>>

notExport ==
    <<fnVars, engineVars, initVars, liveVars, cultureVars, csvVars, recVars, arVars, ssVars, efVars>>

notCSV ==
    <<fnVars, engineVars, initVars, liveVars, cultureVars, exportVars, recVars, arVars, ssVars, efVars>>

notRecommendations ==
    <<fnVars, engineVars, initVars, liveVars, cultureVars, exportVars, csvVars, arVars, ssVars, efVars>>

notReport ==
    <<fnVars, engineVars, initVars, liveVars, cultureVars, exportVars, csvVars, recVars, ssVars, efVars>>

notSessions ==
    <<fnVars, engineVars, initVars, liveVars, cultureVars, exportVars, csvVars, recVars, arVars, efVars>>

notUsage ==
    <<fnVars, engineVars, initVars, liveVars, cultureVars, exportVars, csvVars, recVars, arVars, ssVars>>

(***************************************************************************)
(* Signals                                                                 *)
(***************************************************************************)

\* The five canonical signal names, in the insertion order of the engine.
CanonicalKeys ==
    <<"facial_expression", "voice_tone", "posture", "gestures", "eye_movement">>

\* A key that is not canonical, for signals objects that carry one.
ExtraKey == "micro_tremor"

\* Object.entries order: canonical keys in insertion order, other keys after.
KeyOrder == CanonicalKeys \o <<ExtraKey>>

NotANumber == -1

IsNumber(c) == c /= NotANumber

\* obj[k] = v: the property is added when the object lacks it.
Assign(obj, k, v) == [x \in DOMAIN obj \cup {k} |-> IF x = k THEN v ELSE obj[x]]

\* A signal record.
Signal(c, ind, src) == [confidence |-> c, indicators |-> ind, apiSource |-> src]

\* The entries of a signals object (a function from the keys present), in order.
RECURSIVE EntriesFrom(_, _)
EntriesFrom(sigs, i) ==
    IF i > Len(KeyOrder) THEN << >>
    ELSE (IF KeyOrder[i] \in DOMAIN sigs THEN <<KeyOrder[i]>> ELSE << >>)
         \o EntriesFrom(sigs, i + 1)

ObjectKeys(sigs) == EntriesFrom(sigs, 1)

\* The number given taken for seconds, to compare with.
formatTime_seconds(tenths) == <<tenths \div 60, tenths % 60>>

\* seconds are given in tenths; the result is <<minutes, seconds>>, "MM:SS".
formatTime(tenths) == <<(tenths \div 10) \div 60, (tenths \div 10) % 60>>

(***************************************************************************)
(* calculateTrustVector                                                    *)
(***************************************************************************)

\* A table without the weight of eye_movement, to compare with.
weights_noEye ==
    [facial_expression |-> 25, voice_tone |-> 20, posture |-> 20,
     gestures |-> 20, eye_movement |-> 0]

\* const weights (percent)
weights ==
    [facial_expression |-> 25, voice_tone |-> 20, posture |-> 20,
     gestures |-> 20, eye_movement |-> 15]

\* weights[signalType] || 0
weightOf(signalType) ==
    IF signalType \in DOMAIN weights THEN weights[signalType] ELSE 0

RECURSIVE TrustReduce(_, _, _)
TrustReduce(sigs, keys, trust) ==
    IF keys = << >> THEN trust
    ELSE LET data == sigs[Head(keys)]
         IN  IF ~IsNumber(data.confidence)
             THEN TrustReduce(sigs, Tail(keys), trust)
             ELSE TrustReduce(sigs, Tail(keys),
                              trust + data.confidence * weightOf(Head(keys)))

calculateTrustVector(sigs) == TrustReduce(sigs, ObjectKeys(sigs), 0)

(***************************************************************************)
(* generateAlerts                                                          *)
(***************************************************************************)

RECURSIVE SeqSum(_)
SeqSum(s) == IF s = << >> THEN 0 ELSE Head(s) + SeqSum(Tail(s))

\* The confidences that are numbers, in entry order.
RECURSIVE ConfidencesOf(_, _)
ConfidencesOf(sigs, keys) ==
    IF keys = << >> THEN << >>
    ELSE (IF IsNumber(sigs[Head(keys)].confidence)
          THEN <<sigs[Head(keys)].confidence>> ELSE << >>)
         \o ConfidencesOf(sigs, Tail(keys))

\* The population variance of permille values c1..cn is VarNum / VarDen with
\* VarNum = sum (n*ci - S)^2 and VarDen = 1000000 * n^3  (S the sum).
VarNum(confs) ==
    LET n == Len(confs)
        S == SeqSum(confs)
    IN  SeqSum([i \in 1..n |-> (n * confs[i] - S) * (n * confs[i] - S)])

VarDen(confs) == 1000000 * Len(confs) * Len(confs) * Len(confs)

\* The threshold of severity 'high' used for the alert itself, to compare with.
IncongruenceFires_tenth(confs) == VarNum(confs) > VarDen(confs) \div 10

\* variance > 0.05
IncongruenceFires(confs) == VarNum(confs) > VarDen(confs) \div 20

\* The two severities exchanged, to compare with.
severityOf_swapped(confs) ==
    IF VarNum(confs) > VarDen(confs) \div 10 THEN "medium" ELSE "high"

\* variance > 0.1 ? 'high' : 'medium'
severityOf(confs) ==
    IF VarNum(confs) > VarDen(confs) \div 10 THEN "high" ELSE "medium"

Includes(seq, x) == \E i \in 1..Len(seq) : seq[i] = x

\* A test that takes a confidence of 0 for a missing one, to compare with.
LowConfidence_truthy(data) ==
    IsNumber(data.confidence) /\ data.confidence > 0 /\ data.confidence < 600

\* data && data.confidence < 0.6
LowConfidence(data) == IsNumber(data.confidence) /\ data.confidence < 600

\* The forEach over Object.entries: one alert per signal below 0.6; rand[i]
\* is the value of Math.random() * 5 (in tenths) drawn for the i-th entry.
RECURSIVE LowConfidenceAlerts(_, _, _, _)
LowConfidenceAlerts(sigs, keys, i, rand) ==
    IF i > Len(keys) THEN << >>
    ELSE (IF LowConfidence(sigs[keys[i]])
          THEN <<[type |-> "low-confidence", severity |-> "medium",
                  timestamp |-> formatTime(rand[i]),
                  signalType |-> keys[i],
                  confidence |-> <<sigs[keys[i]].confidence, 1000>>]>>
          ELSE << >>)
         \o LowConfidenceAlerts(sigs, keys, i + 1, rand)

\* The alerts generateAlerts pushes, in order.  An alert's confidence is a
\* fraction <<numerator, denominator>>; description is carried by type and
\* signalType.
generateAlerts(sigs, rand) ==
    LET keys  == ObjectKeys(sigs)
        confs == ConfidencesOf(sigs, keys)
    IN  IF Len(confs) = 0 THEN << >>
        ELSE
          (IF IncongruenceFires(confs)
           THEN <<[type |-> "incongruence", severity |-> severityOf(confs),
                   timestamp |-> formatTime(15), signalType |-> "",
                   confidence |-> <<VarDen(confs) - VarNum(confs), VarDen(confs)>>]>>
           ELSE << >>)
          \o
          (IF "facial_expression" \in DOMAIN sigs
              /\ Includes(sigs["facial_expression"].indicators, "lip_compression")
           THEN <<[type |-> "skepticism", severity |-> "medium",
                   timestamp |-> formatTime(28), signalType |-> "",
                   confidence |-> <<sigs["facial_expression"].confidence, 1000>>]>>
           ELSE << >>)
          \o
          (IF "gestures" \in DOMAIN sigs
              /\ Includes(sigs["gestures"].indicators, "hand_to_face")
           THEN <<[type |-> "deep_processing", severity |-> "low",
                   timestamp |-> formatTime(32), signalType |-> "",
                   confidence |-> <<sigs["gestures"].confidence, 1000>>]>>
           ELSE << >>)
          \o LowConfidenceAlerts(sigs, keys, 1, rand)

\* The streams of Math.random() * 5 draws (tenths of a second, 0 <= r < 50).
RandomStreams ==
    { [i \in 1..Len(KeyOrder) |-> 49],
      [i \in 1..Len(KeyOrder) |-> (13 * i) % 50] }

(***************************************************************************)
(* The two pure functions applied to signals objects of every shape.       *)
(***************************************************************************)

\* A key that the input leaves out.
Absent == -2

\* Confidences (permille) the inputs are drawn from; facial_expression also
\* takes 0.8.
ConfValues == {300, 600, 900, 950}

ConfChoices(k) ==
    IF k = ExtraKey THEN {Absent, 900}
    ELSE {Absent, NotANumber} \cup
         (IF k = "facial_expression" THEN ConfValues \cup {800} ELSE ConfValues)

\* Indicator lists the inputs are drawn from.
IndicatorVariants == {"plain", "lip", "hand"}

IndicatorsFor(k, v) ==
    IF k = "facial_expression" /\ v = "lip" THEN <<"micro-expressions", "lip_compression">>
    ELSE IF k = "gestures" /\ v = "hand" THEN <<"hand_to_face">>
    ELSE <<"baseline">>

\* The signals object with confidence c[i] for KeyOrder[i], where present.
MakeSignals(c, v) ==
    LET K == {KeyOrder[i] : i \in {j \in 1..Len(KeyOrder) : c[j] /= Absent}}
        ix(k) == CHOOSE i \in 1..Len(KeyOrder) : KeyOrder[i] = k
    IN  [k \in K |-> Signal(c[ix(k)], IndicatorsFor(k, v), "input")]

SignalsInputs ==
    { MakeSignals(<<a, b, c, d, e, x>>, v) :
        a \in ConfChoices(KeyOrder[1]), b \in ConfChoices(KeyOrder[2]),
        c \in ConfChoices(KeyOrder[3]), d \in ConfChoices(KeyOrder[4]),
        e \in ConfChoices(KeyOrder[5]), x \in ConfChoices(KeyOrder[6]),
        v \in IndicatorVariants }

InitSignals ==
    /\ fnSignals \in SignalsInputs
    /\ fnPc = "input"
    /\ fnTrust = 0
    /\ fnAlerts = << >>
    /\ engineIdle
    /\ initIdle
    /\ liveIdle
    /\ cultureIdle
    /\ exportIdle
    /\ csvIdle
    /\ recIdle
    /\ arIdle
    /\ ssIdle
    /\ efIdle

ApplyTrustVector ==
    /\ fnPc = "input"
    /\ fnTrust' = calculateTrustVector(fnSignals)
    /\ fnPc' = "trust"
    /\ UNCHANGED <<fnSignals, fnAlerts, notSignals>>

ApplyGenerateAlerts ==
    /\ fnPc = "trust"
    /\ \E rand \in RandomStreams : fnAlerts' = generateAlerts(fnSignals, rand)
    /\ fnPc' = "alerts"
    /\ UNCHANGED <<fnSignals, fnTrust, notSignals>>

NextSignals == ApplyTrustVector \/ ApplyGenerateAlerts

SpecSignals == InitSignals /\ [][NextSignals]_vars

(***************************************************************************)
(* The analysis engine: one session at a time through an entry point       *)
(* (startLiveAnalysis / stopLiveAnalysis, analyzeUploadedMedia,            *)
(* analyzeTextInput).  The service adapters and the media service are      *)
(* collaborators: a call to one returns one of its outputs or throws.      *)
(***************************************************************************)

Services ==
    {"supabase", "github", "openai", "anthropic", "google", "googleVideo", "claudeCode"}

\* The adapter operations a session may call.
Operations ==
    {"analyzeFacialExpressions", "analyzeAudio", "analyzeVideo", "analyzeGestures",
     "generateAnalysis", "storeAnalysis", "createAnalysisReport"}

\* The context presets sessions are started with.
Presets == {"meeting", "interview"}

\* Outputs of the adapters (confidence in permille).
FacialOutputs ==
    { [confidence |-> 900, indicators |-> <<"clear-facial-visibility">>],
      [confidence |-> 400, indicators |-> <<"facial-tension", "lip_compression">>] }

VocalOutputs == { [confidence |-> 500, emotions |-> <<"stress">>] }

VideoOutputs ==
    { [confidence |-> 780, indicators |-> <<"movement-patterns", "spatial-positioning">>],
      [confidence |-> 500, indicators |-> <<"initial-positioning">>] }

GestureOutputs ==
    { [confidence |-> 910, indicators |-> <<"body-alignment", "gesture-frequency">>,
       hasFullBody |-> FALSE],
      [confidence |-> 550, indicators |-> <<"hand_to_face">>, hasFullBody |-> TRUE] }

\* claudeCodeService.generateAnalysis(analysisData, context) of a connected
\* (initialized) service (part_006 16-97): the report template reads
\* confidence and indicators of analysisData.signals.facial, .vocal,
\* .postural and .temporal, so it throws a TypeError, which the catch
\* rethrows, unless the signals have these four keys; the confidence it
\* returns is the trust vector.
generateAnalysis(data, sigs) ==
    IF {"facial", "vocal", "postural", "temporal"} \subseteq DOMAIN sigs
    THEN [threw |-> FALSE, analysis |-> "# Behavioral Analysis Report",
          confidence |-> data.trustVector]
    ELSE [threw |-> TRUE, analysis |-> "", confidence |-> 0]

\* posturalData.confidence * 0.9
TimesPointNine(c) == (c * 9) \div 10

\* The literals the catch blocks assign.
FacialFallback ==
    Signal(850, <<"micro-expressions", "eye-contact-patterns">>, "fallback")

VocalFallback_failed == Signal(720, <<"pitch-variance", "speech-rate">>, "failed")

VocalFallback == Signal(720, <<"pitch-variance", "speech-rate">>, "fallback")

PostureFallback == Signal(910, <<"body-alignment", "gesture-frequency">>, "fallback")

GesturesFallback ==
    [confidence |-> 880, indicators |-> <<"hand_positions", "gesture_timing">>,
     apiSource |-> "fallback", hasFullBody |-> FALSE]

\* What gestures is set to when gesture analysis throws or Vision is not
\* connected: derived from the posture adapter's output.
GesturesFromPosture(pd) ==
    [confidence |-> TimesPointNine(pd.confidence),
     indicators |-> <<"hand_movements", "gesture_timing">>,
     apiSource |-> "google-video-intelligence", hasFullBody |-> FALSE]

DefaultSignal == Signal(0, <<"baseline">>, "none")

\* An initialization that leaves voice_tone out, to compare with.
DefaultSignals_noVoice ==
    [k \in {CanonicalKeys[i] : i \in 1..Len(CanonicalKeys)} \ {"voice_tone"} |-> DefaultSignal]

\* signals as performComprehensiveAnalysis initializes it.
DefaultSignals ==
    [k \in {CanonicalKeys[i] : i \in 1..Len(CanonicalKeys)} |-> DefaultSignal]

\* signals as performTextBasedAnalysis initializes it.
TextSignals ==
    [facial_expression |-> Signal(700, <<"text_described_expressions">>, "text-analysis"),
     voice_tone |-> Signal(600, <<"described_vocal_cues">>, "text-analysis"),
     posture |-> Signal(750, <<"body_position_cues">>, "text-analysis"),
     gestures |-> Signal(800, <<"hand_gesture_descriptions">>, "text-analysis"),
     eye_movement |-> Signal(650, <<"gaze_pattern_descriptions">>, "text-analysis")]

\* A timeline entry; time is already formatted.
Event(time, event, confidence, apiCall) ==
    [time |-> time, event |-> event, confidence |-> confidence, apiCall |-> apiCall]

\* addDetailedTimelineEvent keeps the four timeline fields of detailEvent.
addDetailedTimelineEvent(tl, time, event, confidence, apiCall) ==
    Append(tl, Event(time, event, confidence, apiCall))

NoData ==
    [sessionId |-> "", trustVector |-> 0, claudeCodeGenerated |-> FALSE,
     claudeAnalysis |-> "", supabaseId |-> "", githubUrl |-> "", mediaType |-> ""]

NoResult ==
    [sessionId |-> "", signals |-> << >>, trustVector |-> 0, alerts |-> << >>,
     timeline |-> << >>, claudeCodeGenerated |-> FALSE, claudeAnalysis |-> "",
     supabaseId |-> "", githubUrl |-> "", contextPreset |-> "", mediaType |-> ""]

NoPostural == [confidence |-> 0, indicators |-> << >>]

\* No report has been generated.
NoReport == [confidenceNote |-> "", analysisPhases |-> << >>, decisionIndicators |-> << >>]

Init ==
    /\ connected \in [Services -> BOOLEAN]
    /\ sessionId = ""
    /\ recording = FALSE
    /\ startPreset = ""
    /\ pc = "idle"
    /\ entry = "none"
    /\ mediaData = "object"
    /\ contextPreset = ""
    /\ signals = DefaultSignals
    /\ timeline = << >>
    /\ alerts = << >>
    /\ posturalData = NoPostural
    /\ analysisData = NoData
    /\ invoked = [op \in Operations |-> 0]
    /\ failed = {}
    /\ returned = "none"
    /\ result = NoResult
    /\ forensicReport = NoReport
    /\ fnIdle
    /\ initIdle
    /\ liveIdle
    /\ cultureIdle
    /\ exportIdle
    /\ csvIdle
    /\ recIdle
    /\ arIdle
    /\ ssIdle
    /\ efIdle

\* The locals of performComprehensiveAnalysis(mediaData, contextPreset).
EnterComprehensive(md, preset) ==
    /\ mediaData' = md
    /\ contextPreset' = preset
    /\ signals' = DefaultSignals
    /\ timeline' = << >>
    /\ alerts' = << >>
    /\ posturalData' = NoPostural
    /\ analysisData' = NoData
    /\ pc' = "facial"

\* The locals of an analysis are gone when it has returned.
LeaveAnalysis ==
    /\ mediaData' = "object"
    /\ contextPreset' = ""
    /\ signals' = DefaultSignals
    /\ timeline' = << >>
    /\ alerts' = << >>
    /\ posturalData' = NoPostural
    /\ analysisData' = NoData

\* startLiveAnalysis(contextPreset), to its return: camera and recorder come
\* up (ok) or one of them does not.
StartLiveAnalysis ==
    \E preset \in Presets, ok \in BOOLEAN :
        /\ pc = "idle"
        /\ pc' = "returned"
        /\ entry' = "start"
        /\ returned' = IF ok THEN "success" ELSE "failure"
        /\ sessionId' = "blindspot_"
        /\ IF ok THEN recording' = TRUE /\ startPreset' = preset
                 ELSE UNCHANGED <<recording, startPreset>>
        /\ UNCHANGED <<notEngine, forensicReport, connected, result, invoked, failed, mediaData, contextPreset, signals, timeline,
                       alerts, posturalData, analysisData>>

\* stopLiveAnalysis, to the call of performComprehensiveAnalysis:
\* stopRecording() resolves to null when nothing is recording.
StopLiveAnalysis ==
    /\ pc = "idle"
    /\ entry' = "live"
    /\ recording' = FALSE
    /\ UNCHANGED <<result, invoked, failed>>
    /\ IF recording
       THEN /\ EnterComprehensive("object", "live")
            /\ UNCHANGED <<notEngine, forensicReport, connected, sessionId, startPreset, returned>>
       ELSE /\ pc' = "returned"
            /\ returned' = "null"
            /\ UNCHANGED <<notEngine, forensicReport, connected, sessionId, startPreset, mediaData, contextPreset,
                           signals, timeline, alerts, posturalData, analysisData>>

\* analyzeUploadedMedia(file, contextPreset), to the end of
\* processUploadedFile: an image is read as a data URL (a string), video and
\* audio as a Blob; any other type, or a reader error, throws.
AnalyzeUploadedMedia ==
    \E fileType \in {"image", "video", "audio", "text"}, preset \in Presets,
       readOk \in BOOLEAN :
        /\ pc = "idle"
        /\ entry' = "upload"
        /\ sessionId' = "blindspot_upload_"
        /\ UNCHANGED <<result, invoked, failed>>
        /\ IF fileType \in {"image", "video", "audio"} /\ readOk
           THEN /\ EnterComprehensive(IF fileType = "image" THEN "string" ELSE "object",
                                      preset)
                /\ UNCHANGED <<notEngine, forensicReport, connected, recording, startPreset, returned>>
           ELSE /\ pc' = "returned"
                /\ returned' = "null"
                /\ UNCHANGED <<notEngine, forensicReport, connected, recording, startPreset, mediaData,
                               contextPreset, signals, timeline, alerts, posturalData,
                               analysisData>>

Called(op) == invoked' = [invoked EXCEPT ![op] = @ + 1]

\* The call of op threw or rejected, or (storeAnalysis, createAnalysisReport)
\* resolved to a result whose success is false.
Failed(op) == failed' = failed \cup {op}

\* Facial analysis that calls the adapter again after a failed call.
FacialStep_retry ==
    /\ pc = "facial"
    /\ IF connected["google"]
       THEN /\ Called("analyzeFacialExpressions")
            /\ LET started == Append(timeline,
                                 Event(formatTime(5), "Facial analysis started", 950,
                                       "google-vision-init"))
               IN  \/ \E facialData \in FacialOutputs :
                        /\ signals' = Assign(signals, "facial_expression",
                                         Signal(facialData.confidence, facialData.indicators,
                                                "google-vision"))
                        /\ timeline' =
                             addDetailedTimelineEvent(
                               Append(started,
                                      Event(formatTime(21),
                                            "Micro-expressions detected in facial region",
                                            facialData.confidence, "google-vision-faces")),
                               formatTime(21), "Facial pattern analysis",
                               facialData.confidence, "google-vision-faces")
                        /\ pc' = "vocal"
                        /\ UNCHANGED failed
                   \/ /\ invoked["analyzeFacialExpressions"] < 2
                      /\ Failed("analyzeFacialExpressions")
                      /\ pc' = "facial"
                      /\ UNCHANGED <<signals, timeline>>
       ELSE /\ pc' = "vocal"
            /\ UNCHANGED <<signals, timeline, invoked, failed>>
    /\ UNCHANGED <<notEngine, forensicReport, connected, sessionId, recording, startPreset, entry, mediaData,
                   contextPreset, alerts, posturalData, analysisData, returned, result>>

\* Facial analysis with Google Vision (lines 159-185).
FacialStep ==
    /\ pc = "facial"
    /\ pc' = "vocal"
    /\ IF connected["google"]
       THEN /\ Called("analyzeFacialExpressions")
            /\ LET started == Append(timeline,
                                 Event(formatTime(5), "Facial analysis started", 950,
                                       "google-vision-init"))
               IN  \/ \E facialData \in FacialOutputs :
                        /\ signals' = Assign(signals, "facial_expression",
                                         Signal(facialData.confidence, facialData.indicators,
                                                "google-vision"))
                        /\ timeline' =
                             addDetailedTimelineEvent(
                               Append(started,
                                      Event(formatTime(21),
                                            "Micro-expressions detected in facial region",
                                            facialData.confidence, "google-vision-faces")),
                               formatTime(21), "Facial pattern analysis",
                               facialData.confidence, "google-vision-faces")
                        /\ UNCHANGED failed
                   \/ /\ signals' = Assign(signals, "facial_expression", FacialFallback)
                      /\ timeline' = started
                      /\ Failed("analyzeFacialExpressions")
       ELSE UNCHANGED <<signals, timeline, invoked, failed>>
    /\ UNCHANGED <<notEngine, forensicReport, connected, sessionId, recording, startPreset, entry, mediaData,
                   contextPreset, alerts, posturalData, analysisData, returned, result>>

\* Vocal analysis with OpenAI (lines 187-212).
VocalStep ==
    /\ pc = "vocal"
    /\ pc' = "postural"
    /\ IF connected["openai"] /\ mediaData = "object"
       THEN /\ Called("analyzeAudio")
            /\ LET started == Append(timeline,
                                 Event(formatTime(12), "Vocal analysis started", 900,
                                       "openai-whisper-init"))
               IN  \/ \E vocalData \in VocalOutputs :
                        /\ signals' = Assign(signals, "voice_tone",
                                         Signal(vocalData.confidence, vocalData.emotions,
                                                "openai-whisper"))
                        /\ timeline' =
                             addDetailedTimelineEvent(
                               Append(started,
                                      Event(formatTime(34), "Voice stress patterns detected",
                                            vocalData.confidence, "openai-audio-analysis")),
                               formatTime(34), "Vocal tone analysis",
                               vocalData.confidence, "openai-audio-analysis")
                        /\ UNCHANGED failed
                   \/ /\ signals' = Assign(signals, "voice_tone", VocalFallback)
                      /\ timeline' = started
                      /\ Failed("analyzeAudio")
       ELSE UNCHANGED <<signals, timeline, invoked, failed>>
    /\ UNCHANGED <<notEngine, forensicReport, connected, sessionId, recording, startPreset, entry, mediaData,
                   contextPreset, alerts, posturalData, analysisData, returned, result>>

\* Postural analysis with Google Video Intelligence, to the call of
\* analyzeGestures or to the end of the block (lines 214-287).
PosturalStep ==
    /\ pc = "postural"
    /\ IF connected["googleVideo"]
       THEN /\ LET started == Append(timeline,
                                 Event(formatTime(18), "Postural analysis started", 880,
                                       "google-video-init"))
               IN  \/ \E pd \in VideoOutputs :
                        /\ posturalData' = pd
                        /\ UNCHANGED failed
                        /\ IF connected["google"]
                           THEN /\ signals' = Assign(signals, "posture",
                                                Signal(pd.confidence, pd.indicators,
                                                       "google-video-intelligence"))
                                /\ timeline' = started
                                /\ pc' = "gesture"
                           ELSE /\ signals' =
                                     Assign(Assign(signals, "posture",
                                                   Signal(pd.confidence, pd.indicators,
                                                          "google-video-intelligence")),
                                            "gestures", GesturesFromPosture(pd))
                                /\ timeline' =
                                     addDetailedTimelineEvent(started, formatTime(42),
                                       "Postural shift analysis", pd.confidence,
                                       "google-video-analysis")
                                /\ pc' = "score"
                   \/ /\ signals' = Assign(Assign(signals, "posture", PostureFallback),
                                           "gestures", GesturesFallback)
                      /\ timeline' = started
                      /\ pc' = "score"
                      /\ Failed("analyzeVideo")
                      /\ UNCHANGED posturalData
            /\ Called("analyzeVideo")
       ELSE /\ pc' = "score"
            /\ UNCHANGED <<signals, timeline, invoked, failed, posturalData>>
    /\ UNCHANGED <<notEngine, forensicReport, connected, sessionId, recording, startPreset, entry, mediaData,
                   contextPreset, alerts, analysisData, returned, result>>

\* Gesture analysis with Google Vision, inside the postural block
\* (lines 226-281).
GestureStep ==
    /\ pc = "gesture"
    /\ pc' = "score"
    /\ Called("analyzeGestures")
    /\ \/ \E gestureData \in GestureOutputs :
            LET withGestures ==
                    Assign(signals, "gestures",
                           [confidence |-> gestureData.confidence,
                            indicators |-> gestureData.indicators,
                            apiSource |-> "google-vision-api",
                            hasFullBody |-> gestureData.hasFullBody])
                bodyEvent ==
                    IF gestureData.hasFullBody
                    THEN "Full body posture detected with gesture analysis"
                    ELSE "Upper body posture and gestures analyzed"
            IN  /\ signals' =
                     IF gestureData.hasFullBody
                     THEN Assign(withGestures, "posture",
                                 [withGestures["posture"] EXCEPT !.indicators =
                                    Append(@, "full-body-visible")])
                     ELSE withGestures
                /\ timeline' =
                     addDetailedTimelineEvent(
                       Append(timeline,
                              Event(formatTime(42), bodyEvent, gestureData.confidence,
                                    "google-vision-gesture-analysis")),
                       formatTime(42), "Postural shift analysis", posturalData.confidence,
                       "google-video-analysis")
                /\ UNCHANGED failed
       \/ /\ signals' = Assign(signals, "gestures", GesturesFromPosture(posturalData))
          /\ Failed("analyzeGestures")
          /\ timeline' =
               addDetailedTimelineEvent(timeline, formatTime(42), "Postural shift analysis",
                                        posturalData.confidence, "google-video-analysis")
    /\ UNCHANGED <<notEngine, forensicReport, connected, sessionId, recording, startPreset, entry, mediaData,
                   contextPreset, alerts, posturalData, analysisData, returned, result>>

\* The synthetic eye movement signal, the alerts, the trust vector and
\* analysisData (lines 289-322).
ScoreStep ==
    /\ pc = "score"
    /\ pc' = "claude"
    /\ signals' = Assign(signals, "eye_movement",
                         Signal(820, <<"gaze_direction", "eye_accessing_cues", "blink_rate">>,
                                "internal-eye-tracking"))
    /\ timeline' =
         addDetailedTimelineEvent(
           Append(timeline,
                  Event(formatTime(25),
                        "Eye accessing cues detected - up-left then down-right", 820,
                        "internal-eye-tracking")),
           formatTime(25), "Eye movement pattern analysis", 820, "internal-eye-tracking")
    /\ \E rand \in RandomStreams : alerts' = alerts \o generateAlerts(signals', rand)
    /\ analysisData' = [NoData EXCEPT !.sessionId = sessionId,
                                      !.trustVector = calculateTrustVector(signals')]
    /\ UNCHANGED <<notEngine, forensicReport, connected, sessionId, recording, startPreset, entry, mediaData,
                   contextPreset, posturalData, invoked, failed, returned, result>>

\* Generate Claude Code analysis (lines 324-334).
ClaudeStep ==
    /\ pc = "claude"
    /\ pc' = "supabase"
    /\ IF connected["claudeCode"]
       THEN /\ Called("generateAnalysis")
            /\ LET claudeAnalysis == generateAnalysis(analysisData, signals)
               IN  IF ~claudeAnalysis.threw
                   THEN /\ analysisData' = [analysisData EXCEPT
                                              !.claudeAnalysis = claudeAnalysis.analysis,
                                              !.claudeCodeGenerated = TRUE]
                        /\ timeline' =
                             Append(timeline,
                                    Event(formatTime(58), "Claude Code analysis completed",
                                          claudeAnalysis.confidence, "claude-code-analysis"))
                        /\ UNCHANGED failed
                   ELSE /\ Failed("generateAnalysis")
                        /\ UNCHANGED <<analysisData, timeline>>
       ELSE UNCHANGED <<analysisData, timeline, invoked, failed>>
    /\ UNCHANGED <<notEngine, forensicReport, connected, sessionId, recording, startPreset, entry, mediaData,
                   contextPreset, signals, alerts, posturalData, returned, result>>

\* Store in Supabase with a throw that is not caught: the session ends with
\* the rejection, which the entry point turns into null.
SupabaseStep_rethrow ==
    /\ pc = "supabase"
    /\ IF connected["supabase"]
       THEN /\ Called("storeAnalysis")
            /\ \/ /\ analysisData' = [analysisData EXCEPT !.supabaseId = "row-id"]
                  /\ pc' = "github"
                  /\ UNCHANGED <<failed, returned>>
               \/ /\ Failed("storeAnalysis")
                  /\ pc' = "returned"
                  /\ returned' = "null"
                  /\ UNCHANGED analysisData
       ELSE /\ pc' = "github"
            /\ UNCHANGED <<analysisData, invoked, failed, returned>>
    /\ UNCHANGED <<notEngine, forensicReport, connected, sessionId, recording, startPreset, entry, mediaData,
                   contextPreset, signals, timeline, alerts, posturalData, result>>

\* Store in Supabase (lines 336-346).  storeAnalysis resolves to
\* {success: true, id} or to {success: false, error} (supabaseService.ts
\* 78-105); the engine reads id only when success is true, and its catch
\* swallows a rejection.
SupabaseStep ==
    /\ pc = "supabase"
    /\ pc' = "github"
    /\ IF connected["supabase"]
       THEN /\ Called("storeAnalysis")
            /\ \/ /\ analysisData' = [analysisData EXCEPT !.supabaseId = "row-id"]
                  /\ UNCHANGED failed
               \/ /\ Failed("storeAnalysis")
                  /\ UNCHANGED analysisData
       ELSE UNCHANGED <<analysisData, invoked, failed>>
    /\ UNCHANGED <<notEngine, forensicReport, connected, sessionId, recording, startPreset, entry, mediaData,
                   contextPreset, signals, timeline, alerts, posturalData, returned, result>>

\* Export to GitHub (lines 348-358): createAnalysisReport resolves to a
\* result with success true and a url, or to one with success false, or
\* rejects; the engine reads url only when success is true, and its catch
\* swallows a rejection.
GithubStep ==
    /\ pc = "github"
    /\ pc' = "return"
    /\ IF connected["github"]
       THEN /\ Called("createAnalysisReport")
            /\ \/ /\ analysisData' = [analysisData EXCEPT !.githubUrl = "report-url"]
                  /\ UNCHANGED failed
               \/ /\ Failed("createAnalysisReport")
                  /\ UNCHANGED analysisData
       ELSE UNCHANGED <<analysisData, invoked, failed>>
    /\ UNCHANGED <<notEngine, forensicReport, connected, sessionId, recording, startPreset, entry, mediaData,
                   contextPreset, signals, timeline, alerts, posturalData, returned, result>>

\* The AnalysisResult: analysisData with the signals, alerts and timeline
\* objects it refers to.
ResultOf(data, sig, al, tl, preset) ==
    [sessionId |-> data.sessionId, signals |-> sig, trustVector |-> data.trustVector,
     alerts |-> al, timeline |-> tl, claudeCodeGenerated |-> data.claudeCodeGenerated,
     claudeAnalysis |-> data.claudeAnalysis, supabaseId |-> data.supabaseId,
     githubUrl |-> data.githubUrl, contextPreset |-> preset, mediaType |-> data.mediaType]

\* return analysisData (line 360), and the entry point's return of it.
ReturnAnalysis ==
    /\ pc = "return"
    /\ pc' = "returned"
    /\ returned' = "result"
    /\ result' = ResultOf(analysisData, signals, alerts, timeline, contextPreset)
    /\ LeaveAnalysis
    /\ UNCHANGED <<notEngine, forensicReport, connected, sessionId, recording, startPreset, entry, invoked,
                   failed>>

\* The UI handler that awaited the call goes on with what was returned; the
\* live session's preset is the UI's until the session has been stopped.
ResumeCaller ==
    /\ pc = "returned"
    /\ pc' = "idle"
    /\ entry' = "none"
    /\ returned' = "none"
    /\ result' = NoResult
    /\ forensicReport' = NoReport
    /\ invoked' = [op \in Operations |-> 0]
    /\ failed' = {}
    /\ startPreset' = IF entry = "live" THEN "" ELSE startPreset
    /\ UNCHANGED <<notEngine, connected, sessionId, recording, mediaData, contextPreset,
                   signals, timeline, alerts, posturalData, analysisData>>

\* What the text mentions, as processTextWithAI tests it.
TextInputs == SUBSET {"lean", "smile", "crossed arms"}

\* Object.assign(signals, textAnalysis.signals)
RECURSIVE ObjectAssign(_, _, _)
ObjectAssign(target, source, keys) ==
    IF keys = << >> THEN target
    ELSE ObjectAssign(Assign(target, Head(keys), source[Head(keys)]), source, Tail(keys))

\* processTextWithAI (lines 529-553).
processTextWithAI(text) ==
    LET s1 == IF "lean" \in text
              THEN Assign(<< >>, "posture",
                          Signal(850, <<"forward_lean", "engagement_posture">>,
                                 "ai-text-analysis"))
              ELSE << >>
        s2 == IF "smile" \in text
              THEN Assign(s1, "facial_expression",
                          Signal(900, <<"genuine_smile", "positive_expression">>,
                                 "ai-text-analysis"))
              ELSE s1
        s3 == IF "crossed arms" \in text
              THEN Assign(s2, "gestures",
                          Signal(800, <<"defensive_posture", "closed_gestures">>,
                                 "ai-text-analysis"))
              ELSE s2
    IN  [signals |-> s3,
         timeline |->
           (IF "lean" \in text
            THEN <<Event(<<0, 15>>, "Forward lean detected in text description", 850,
                         "ai-text-pattern")>>
            ELSE << >>)
           \o (IF "smile" \in text
               THEN <<Event(<<0, 20>>, "Positive facial expression identified", 900,
                            "ai-text-pattern")>>
               ELSE << >>),
         alerts |->
           IF "crossed arms" \in text
           THEN <<[type |-> "defensive", severity |-> "medium", timestamp |-> <<0, 25>>,
                   signalType |-> "", confidence |-> <<800, 1000>>]>>
           ELSE << >>]

\* analyzeTextInput(textInput, contextPreset) with performTextBasedAnalysis
\* (lines 469-527).
AnalyzeTextInput ==
    \E text \in TextInputs, preset \in Presets :
        LET started == <<Event(<<0, 1>>, "Text analysis initiated", 950, "text-processor")>>
            useAI == connected["openai"] \/ connected["anthropic"]
            textAnalysis == processTextWithAI(text)
            sig == IF useAI
                   THEN ObjectAssign(TextSignals, textAnalysis.signals,
                                     ObjectKeys(textAnalysis.signals))
                   ELSE TextSignals
            tl == IF useAI THEN started \o textAnalysis.timeline ELSE started
            al == IF useAI THEN textAnalysis.alerts ELSE << >>
        IN  /\ pc = "idle"
            /\ entry' = "text"
            /\ sessionId' = "blindspot_text_"
            /\ mediaData' = "string"
            /\ contextPreset' = preset
            /\ signals' = sig
            /\ timeline' = tl
            /\ alerts' = al
            /\ analysisData' = [NoData EXCEPT !.sessionId = sessionId',
                                              !.trustVector = calculateTrustVector(sig),
                                              !.mediaType = "text"]
            /\ pc' = "return"
            /\ UNCHANGED <<notEngine, forensicReport, connected, recording, startPreset, posturalData,
                           returned, result, invoked, failed>>

(***************************************************************************)
(* initializeServices (SpecInit)                                           *)
(***************************************************************************)

\* The adapters in the order of the array given to Promise.allSettled.
InitCalls ==
    <<"supabaseService", "githubService", "openaiService", "anthropicService",
      "googleVisionService", "googleVideoService", "claudeCodeService">>

Adapters == {InitCalls[i] : i \in 1..Len(InitCalls)}

NotCalled == [status |-> "none", value |-> FALSE]

Pending == [status |-> "pending", value |-> FALSE]

\* How a promise of initialize() settles: fulfilled with true or with false,
\* or rejected.
Outcomes ==
    {[status |-> "fulfilled", value |-> TRUE], [status |-> "fulfilled", value |-> FALSE],
     [status |-> "rejected", value |-> FALSE]}

\* results[i].status === 'fulfilled' ? results[i].value : false
ValueOf(r) == IF r.status = "fulfilled" THEN r.value ELSE FALSE

\* A map that reads googleVideo from the wrong result, to compare with.
StatusOf_shifted(results) ==
    [supabase |-> ValueOf(results[1]), github |-> ValueOf(results[2]),
     openai |-> ValueOf(results[3]), anthropic |-> ValueOf(results[4]),
     google |-> ValueOf(results[5]), googleVideo |-> ValueOf(results[5]),
     claudeCode |-> ValueOf(results[7])]

\* const status = {...} (lines 58-66)
StatusOf(results) ==
    [supabase |-> ValueOf(results[1]), github |-> ValueOf(results[2]),
     openai |-> ValueOf(results[3]), anthropic |-> ValueOf(results[4]),
     google |-> ValueOf(results[5]), googleVideo |-> ValueOf(results[6]),
     claudeCode |-> ValueOf(results[7])]

\* Were each initialize() awaited before the next is called, a promise could
\* settle only after the earlier ones.
CanSettle_inTurn(i) ==
    /\ promise[InitCalls[i]] = Pending
    /\ InitCalls[i] \notin stuck
    /\ \A j \in 1..(i - 1) : promise[InitCalls[j]] # Pending

\* The array literal calls every initialize() before allSettled is awaited:
\* each promise that can settle is free to.
CanSettle(i) ==
    /\ promise[InitCalls[i]] = Pending
    /\ InitCalls[i] \notin stuck

InitInit ==
    /\ initPc = "start"
    /\ promise = [a \in Adapters |-> NotCalled]
    /\ isInitialized = [a \in Adapters |-> FALSE]
    /\ stuck \in {{}} \cup {{a} : a \in Adapters}
    /\ status = << >>
    /\ fnIdle
    /\ engineIdle
    /\ liveIdle
    /\ cultureIdle
    /\ exportIdle
    /\ csvIdle
    /\ recIdle
    /\ arIdle
    /\ ssIdle
    /\ efIdle

\* initializeServices() to its await: the seven calls of the array literal.
CallInitialize ==
    /\ initPc = "start"
    /\ initPc' = "awaiting"
    /\ promise' = [a \in Adapters |-> Pending]
    /\ UNCHANGED <<notInit, isInitialized, stuck, status>>

\* The initialize() of the i-th adapter settles; it has set isInitialized
\* when it returns true.
Settle(i) ==
    /\ initPc = "awaiting"
    /\ CanSettle(i)
    /\ \E o \in Outcomes :
        /\ promise' = [promise EXCEPT ![InitCalls[i]] = o]
        /\ isInitialized' = [isInitialized EXCEPT ![InitCalls[i]] = ValueOf(o)]
    /\ UNCHANGED <<notInit, initPc, stuck, status>>

\* Promise.allSettled fulfils when every promise has settled; the status map
\* is built and returned.
ResolveStatus ==
    /\ initPc = "awaiting"
    /\ \A a \in Adapters : promise[a] # Pending
    /\ initPc' = "resolved"
    /\ status' = StatusOf([i \in 1..Len(InitCalls) |-> promise[InitCalls[i]]])
    /\ UNCHANGED <<notInit, promise, isInitialized, stuck>>

NextInit ==
    \/ CallInitialize
    \/ \E i \in 1..Len(InitCalls) : Settle(i)
    \/ ResolveStatus

\* A promise that can settle does settle.
SpecInit ==
    /\ InitInit
    /\ [][NextInit]_vars
    /\ \A i \in 1..Len(InitCalls) : WF_vars(Settle(i))
    /\ WF_vars(ResolveStatus)

(***************************************************************************)
(* Live sessions: startLiveAnalysis against stopLiveAnalysis (SpecLive)    *)
(*                                                                         *)
(* A call is a step at its start and a step after each await that waits    *)
(* for the platform: getUserMedia, a recorder's stop event, the adapters.  *)
(* An await on a promise that is settled already (startRecording, a        *)
(* stopRecording that returns null) resumes before any other call or event *)
(* and belongs to the step.  A timer handle and a recorder are named by    *)
(* the number of the start call that made them.  stop() on a recorder      *)
(* whose stop event is still to fire does nothing.  The interval's         *)
(* callback changes no field and is left out.                              *)
(***************************************************************************)

\* How many calls are begun.
MaxCalls == 4

Call(op, at) == [op |-> op, pc |-> at]

At(c, at) == c \in 1..Len(calls) /\ calls[c].pc = at

Goto(c, at) == calls' = [calls EXCEPT ![c].pc = at]

InitLive ==
    /\ calls = << >>
    /\ analysisInterval = 0
    /\ timers = {}
    /\ stream = FALSE
    /\ mediaRecorder = 0
    /\ isRecording = FALSE
    /\ onstop = [r \in 1..MaxCalls |-> 0]
    /\ stopPending = {}
    /\ quiet = FALSE
    /\ fnIdle
    /\ engineIdle
    /\ initIdle
    /\ cultureIdle
    /\ exportIdle
    /\ csvIdle
    /\ recIdle
    /\ arIdle
    /\ ssIdle
    /\ efIdle

\* startLiveAnalysis to await mediaService.initializeCamera() (lines 72-78).
StartBegin ==
    /\ Len(calls) < MaxCalls
    /\ calls' = Append(calls, Call("start", "camera"))
    /\ quiet' = FALSE
    /\ UNCHANGED <<notLive, analysisInterval, timers, stream, mediaRecorder, isRecording,
                   onstop, stopPending>>

\* getUserMedia settles (lines 78-97, mediaService 7-49): denied, the call
\* returns failure; granted, startRecording() makes and starts the recorder
\* and startPeriodicAnalysis sets the interval (lines 367-380), or the
\* recorder's construction throws and the call returns failure.
CameraSettles(c) ==
    /\ At(c, "camera")
    /\ \/ /\ Goto(c, "failed")
          /\ UNCHANGED <<stream, mediaRecorder, isRecording, analysisInterval, timers>>
       \/ /\ stream' = TRUE
          /\ \/ /\ mediaRecorder' = c
                /\ isRecording' = TRUE
                /\ analysisInterval' = c
                /\ timers' = timers \cup {c}
                /\ Goto(c, "started")
             \/ /\ Goto(c, "failed")
                /\ UNCHANGED <<mediaRecorder, isRecording, analysisInterval, timers>>
    /\ UNCHANGED <<notLive, onstop, stopPending, quiet>>

\* stopLiveAnalysis to the stop event it waits for, or to its return of null
\* when stopRecording() has nothing to stop (lines 100-111, 120-123,
\* mediaService 51-66).
StopBegin ==
    /\ Len(calls) < MaxCalls
    /\ timers' = timers \ {analysisInterval}
    /\ analysisInterval' = 0
    /\ IF mediaRecorder = 0 \/ ~isRecording
       THEN /\ calls' = Append(calls, Call("stop", "null"))
            /\ quiet' = TRUE
            /\ UNCHANGED <<onstop, stopPending>>
       ELSE /\ calls' = Append(calls, Call("stop", "stopping"))
            /\ onstop' = [onstop EXCEPT ![mediaRecorder] = Len(calls) + 1]
            /\ stopPending' = stopPending \cup {mediaRecorder}
            /\ UNCHANGED quiet
    /\ UNCHANGED <<notLive, stream, mediaRecorder, isRecording>>

\* The stop event of recorder r fires: its onstop handler clears isRecording
\* and resolves the stop call that set it (mediaService 57-62), which goes on
\* into performComprehensiveAnalysis (line 114).
OnStop(r) ==
    /\ r \in stopPending
    /\ stopPending' = stopPending \ {r}
    /\ IF onstop[r] # 0
       THEN isRecording' = FALSE /\ Goto(onstop[r], "analysing")
       ELSE UNCHANGED <<isRecording, calls>>
    /\ UNCHANGED <<notLive, analysisInterval, timers, stream, mediaRecorder, onstop, quiet>>

\* The analysis has returned: mediaService.cleanup() and the return of the
\* result (lines 114-119, mediaService 164-177).
StopFinish(c) ==
    /\ At(c, "analysing")
    /\ Goto(c, "result")
    /\ stream' = FALSE
    /\ stopPending' = IF mediaRecorder # 0 /\ isRecording
                      THEN stopPending \cup {mediaRecorder} ELSE stopPending
    /\ mediaRecorder' = 0
    /\ isRecording' = FALSE
    /\ quiet' = TRUE
    /\ UNCHANGED <<notLive, analysisInterval, timers, onstop>>

NextLive ==
    \/ StartBegin
    \/ StopBegin
    \/ \E c \in 1..MaxCalls : CameraSettles(c)
    \/ \E r \in 1..MaxCalls : OnStop(r)
    \/ \E c \in 1..MaxCalls : StopFinish(c)

SpecLive == InitLive /\ [][NextLive]_vars

(***************************************************************************)
(* Cultural adjustment and the forensic report (SpecCulture)               *)
(*                                                                         *)
(* applyCulturalContext copies the top level of the AnalysisResult only:   *)
(* adjustedData.signals is the caller's signals object, so an assignment   *)
(* to one of its properties is seen by the caller.  The other fields of    *)
(* the AnalysisResult are read only and are left out.                      *)
(***************************************************************************)

\* culturalContexts (lines 85-126): directGazeAcceptable and the
\* gestureInterpretations with their appropriateness, in the order of their
\* keys.
culturalContexts ==
    [western |-> [directGazeAcceptable |-> TRUE,
                  gestureInterpretations |->
                    <<<<"thumbs_up", "positive">>, <<"crossed_arms", "negative">>,
                      <<"open_palms", "positive">>, <<"pointing", "neutral">>>>],
     eastern |-> [directGazeAcceptable |-> FALSE,
                  gestureInterpretations |->
                    <<<<"bow", "positive">>, <<"direct_pointing", "negative">>,
                      <<"two_handed_presentation", "positive">>>>]]

\* Names culturalContexts inherits from Object.prototype: the lookup finds a
\* value that is not undefined and has no eyeContactNorms and no
\* gestureInterpretations.
InheritedKeys == {"constructor", "__proto__"}

\* The tags the UI offers, a tag of no culture, the inherited names, and the
\* argument left out.
CultureTags ==
    {"western", "eastern", "mediterranean", "african", "latin", "nordic", "klingon",
     "undefined"} \cup InheritedKeys

\* adjusted.confidence *= 0.8
TimesPointEight(c) == (c * 8) \div 10

\* adjustEyeContactForCulture (lines 634-645): a copy of the signal.
adjustEyeContactForCulture(eyeSignal, context) ==
    IF ~context.directGazeAcceptable
    THEN [eyeSignal EXCEPT !.indicators =
            [i \in 1..Len(@) |-> IF @[i] = "direct_eye_contact"
                                 THEN "respectful_gaze_avoidance" ELSE @[i]]]
    ELSE eyeSignal

\* adjustGesturesForCulture (lines 647-661): a copy of the signal whose
\* confidence is reduced for each negative or taboo gesture it indicates.
RECURSIVE adjustGesturesForCulture(_, _)
adjustGesturesForCulture(gestureSignal, interpretations) ==
    IF interpretations = << >> THEN gestureSignal
    ELSE LET gesture == Head(interpretations)[1]
             appropriateness == Head(interpretations)[2]
             adjusted ==
                 IF /\ Includes(gestureSignal.indicators, gesture)
                    /\ appropriateness \in {"negative", "taboo"}
                 THEN [gestureSignal EXCEPT !.confidence = TimesPointEight(@)]
                 ELSE gestureSignal
         IN  adjustGesturesForCulture(adjusted, Tail(interpretations))

\* adjustPostureForCulture (lines 663-666) returns its argument.
adjustPostureForCulture(postureSignal, context) == postureSignal

\* applyCulturalContext(analysisData, culturalBackground = 'western')
\* (lines 271-305): what the shared signals object holds afterwards, and
\* whether the call threw.  With a context found under an inherited name the
\* first read of its norms throws a TypeError.
applyCulturalContext(sigs, tag) ==
    LET culturalBackground == IF tag = "undefined" THEN "western" ELSE tag
        found == culturalBackground \in DOMAIN culturalContexts
        context == culturalContexts[culturalBackground]
        has(k) == k \in DOMAIN sigs
        s1 == IF has("eye_movement")
              THEN Assign(sigs, "eye_movement",
                          adjustEyeContactForCulture(sigs["eye_movement"], context))
              ELSE sigs
        s2 == IF has("gestures")
              THEN Assign(s1, "gestures",
                          adjustGesturesForCulture(s1["gestures"],
                                                   context.gestureInterpretations))
              ELSE s1
        s3 == IF has("posture")
              THEN Assign(s2, "posture", adjustPostureForCulture(s2["posture"], context))
              ELSE s2
    IN  IF found THEN [signals |-> s3, raised |-> FALSE]
        ELSE IF culturalBackground \in InheritedKeys
             THEN [signals |-> sigs, raised |-> has("eye_movement") \/ has("gestures")]
             ELSE [signals |-> sigs, raised |-> FALSE]

\* The signals of the AnalysisResults the calls are made with.
CultureInputs ==
    { ObjectAssign(ObjectAssign([posture |-> Signal(780, <<"forward_lean">>, "text")],
                                eye, ObjectKeys(eye)),
                   ges, ObjectKeys(ges)) :
        eye \in { << >> } \cup
                { [eye_movement |-> Signal(820, ind, "internal-eye-tracking")] :
                    ind \in { <<"gaze_direction", "blink_rate">>,
                              <<"direct_eye_contact", "blink_rate">> } },
        ges \in { << >> } \cup
                { [gestures |-> Signal(880, ind, "google-vision-api")] :
                    ind \in { <<"hand_movements", "gesture_timing">>,
                              <<"crossed_arms", "open_palms">>,
                              <<"direct_pointing">>,
                              <<"crossed_arms", "direct_pointing">> } } }

InitCulture ==
    /\ cuSignals \in CultureInputs
    /\ cuBefore = cuSignals
    /\ cuTag \in CultureTags
    /\ cuPc = "ready"
    /\ cuRaised = FALSE
    /\ cuResult = << >>
    /\ fnIdle
    /\ engineIdle
    /\ initIdle
    /\ liveIdle
    /\ exportIdle
    /\ csvIdle
    /\ recIdle
    /\ arIdle
    /\ ssIdle
    /\ efIdle

\* The call with the caller's AnalysisResult, to its return or throw.
CultureCall ==
    LET applied == applyCulturalContext(cuSignals, cuTag)
    IN  /\ cuPc = "ready"
        /\ cuSignals' = applied.signals
        /\ cuRaised' = applied.raised
        /\ cuResult' = IF applied.raised THEN << >> ELSE applied.signals
        /\ UNCHANGED <<notCulture, cuBefore, cuTag>>

\* advancedBehavioralAnalysis.applyCulturalContext(analysisData, tag)
ApplyCulturalContext ==
    /\ cuPc' = "applied"
    /\ CultureCall

\* forensicReportService.generateForensicReport(analysisData, contextPreset,
\* subjects, culturalContext) (forensicReportService.ts 121-173): the
\* adjustment, then the report is built by reading the adjusted data.
GenerateForensicReport ==
    /\ cuPc' = "reported"
    /\ CultureCall

NextCulture ==
    \/ ApplyCulturalContext
    \/ GenerateForensicReport

SpecCulture == InitCulture /\ [][NextCulture]_vars

(***************************************************************************)
(* Export of a forensic report (SpecExport)                                *)
(*                                                                         *)
(* filterReportForExport copies the top level of the report only:          *)
(* filtered.baselineCalibration is the caller's object.  An observation is *)
(* modelled by its confidence and by the optional property its builder     *)
(* sets (apiSource in the baseline, timestamp in a phase), a phase by its   *)
(* observations.  A property whose value is undefined holds Undefined.      *)
(***************************************************************************)

ExportFormats == {"pdf", "csv", "json", "markdown"}

\* The ExportOptions of a call.
ExportOptionsSet ==
    [format : ExportFormats, includeAdvancedAnalysis : BOOLEAN, includeRawData : BOOLEAN,
     culturalContext : BOOLEAN, confidenceThreshold : {0, 500, 750, 1000}]

Undefined == "undefined"

\* The properties of an observation that may hold undefined.
OptionalKeys == {"apiSource", "timestamp"}

\* An observation of the baseline: apiSource is the signal's apiSource, which
\* is undefined when the signal object has none.
BaselineObservation(c, src) == [confidence |-> c, apiSource |-> src]

\* An observation of a phase: timestamp is the event's time.
PhaseObservation(c, time) == [confidence |-> c, timestamp |-> time]

\* The lists of observations of the baseline.
ObservationLists ==
    { << >>,
      <<BaselineObservation(800, "google-video-intelligence")>>,
      <<BaselineObservation(700, Undefined),
        BaselineObservation(800, "internal-eye-tracking")>>,
      <<BaselineObservation(950, "fallback"), BaselineObservation(700, "none")>> }

\* The lists of observations of a phase.
PhaseObservationLists ==
    { <<PhaseObservation(800, "00:15")>>,
      <<PhaseObservation(700, "00:15"), PhaseObservation(800, "00:20")>>,
      <<PhaseObservation(950, "00:12"), PhaseObservation(700, Undefined)>> }

\* The reports the calls are made with.
ExportReports ==
    [baselineCalibration : [observations : ObservationLists],
     analysisPhases :
        { << >> } \cup { <<[observations |-> o]>> : o \in PhaseObservationLists },
     advancedInsights : {"insights"},
     culturalContext : {"western"}]

\* observations.filter(obs => obs.confidence >= options.confidenceThreshold)
RECURSIVE FilterObservations(_, _)
FilterObservations(observations, threshold) ==
    IF observations = << >> THEN << >>
    ELSE (IF Head(observations).confidence >= threshold
          THEN <<Head(observations)>> ELSE << >>)
         \o FilterObservations(Tail(observations), threshold)

\* The advanced analysis deleted whatever the option says, to compare with.
Deleted_advancedAlways(options) ==
    {"advancedInsights"}
    \cup (IF options.culturalContext THEN {} ELSE {"culturalContext"})

\* The properties of the top-level copy that `delete` removes.
Deleted(options) ==
    (IF options.includeAdvancedAnalysis THEN {} ELSE {"advancedInsights"})
    \cup (IF options.culturalContext THEN {} ELSE {"culturalContext"})

\* filterReportForExport (Donald.ts 848-875): the object it returns and what
\* the caller's report holds afterwards.
filterReportForExport(report, options) ==
    LET baseline ==
            IF options.includeRawData THEN report.baselineCalibration
            ELSE [observations |->
                    FilterObservations(report.baselineCalibration.observations,
                                       options.confidenceThreshold)]
        phases ==
            IF options.includeRawData THEN report.analysisPhases
            ELSE [i \in 1..Len(report.analysisPhases) |->
                    [observations |->
                       FilterObservations(report.analysisPhases[i].observations,
                                          options.confidenceThreshold)]]
        filtered == [report EXCEPT !.baselineCalibration = baseline,
                                   !.analysisPhases = phases]
    IN  [filtered |-> [k \in DOMAIN filtered \ Deleted(options) |-> filtered[k]],
         report |-> [report EXCEPT !.baselineCalibration = baseline]]

\* JSON.stringify of an object: a property whose value is undefined is left
\* out; the other properties are written in the object's order.
JSONObject(object) ==
    [k \in {key \in DOMAIN object : key \notin OptionalKeys \/ object[key] # Undefined}
        |-> object[k]]

\* JSON.stringify(filteredReport, null, 2) (Donald.ts 327): the text, as the
\* members it holds.
JSONStringify(filtered) ==
    LET JSONPhase(phase) ==
            [observations |->
                [i \in 1..Len(phase.observations) |->
                    JSONObject(phase.observations[i])]]
    IN  [k \in DOMAIN filtered |->
            CASE k = "baselineCalibration" -> JSONPhase(filtered[k])
              [] k = "analysisPhases" ->
                    [i \in 1..Len(filtered[k]) |-> JSONPhase(filtered[k][i])]
              [] OTHER -> filtered[k]]

InitExport ==
    /\ exReport \in ExportReports
    /\ exBefore = exReport
    /\ exOptions = << >>
    /\ exPc = "ready"
    /\ exOutput = << >>
    /\ fnIdle
    /\ engineIdle
    /\ initIdle
    /\ liveIdle
    /\ cultureIdle
    /\ csvIdle
    /\ recIdle
    /\ arIdle
    /\ ssIdle
    /\ efIdle

\* exportReport(report, options) (Donald.ts 281-336): the JSON export
\* serializes the filtered report; the PDF, CSV and Markdown generators read
\* the report itself.
ExportReport ==
    \E options \in ExportOptionsSet :
        LET out == filterReportForExport(exReport, options)
        IN  /\ exPc = "ready"
            /\ exPc' = "exported"
            /\ exOptions' = options
            /\ IF options.format = "json"
               THEN exOutput' = JSONStringify(out.filtered) /\ exReport' = out.report
               ELSE exOutput' = exReport /\ UNCHANGED exReport
            /\ UNCHANGED <<notExport, exBefore>>

NextExport == ExportReport

SpecExport == InitExport /\ [][NextExport]_vars

(***************************************************************************)
(* CSV export of a forensic report (SpecCSV)                               *)
(*                                                                         *)
(* A text is the sequence of its pieces: a piece is one of the characters  *)
(* the export looks at (comma, double quote, newline) or a run of other    *)
(* characters.  An optional property that is undefined is left out of the  *)
(* record.                                                                 *)
(***************************************************************************)

\* str.replace(/"/g, '""')
RECURSIVE DoubleQuotes(_)
DoubleQuotes(str) ==
    IF str = << >> THEN << >>
    ELSE (IF Head(str) = "\"" THEN <<"\"", "\"">> ELSE <<Head(str)>>)
         \o DoubleQuotes(Tail(str))

\* escapeCSV (Donald.ts 877-882)
escapeCSV(str) ==
    IF Includes(str, ",") \/ Includes(str, "\"") \/ Includes(str, "\n")
    THEN <<"\"">> \o DoubleQuotes(str) \o <<"\"">>
    ELSE str

\* array.join(separator)
RECURSIVE Join(_, _)
Join(array, separator) ==
    IF array = << >> THEN << >>
    ELSE IF Len(array) = 1 THEN array[1]
    ELSE array[1] \o separator \o Join(Tail(array), separator)

\* generateCSVData (Donald.ts 642-725): the rows as the fields joined, and
\* the text.
generateCSVData(report, options) ==
    LET \* Math.round(x * 100).toString(), x in permille
        RoundPercent(x) == <<ToString((x + 5) \div 10)>>
        \* value || '' for an optional text
        OrEmpty(object, key) == IF key \in DOMAIN object THEN object[key] ELSE << >>
        \* obs.microExpressions?.join(';') || ''
        MicroExpressionsOf(obs) ==
            IF "microExpressions" \in DOMAIN obs
            THEN Join(obs.microExpressions, <<";">>) ELSE << >>
        header ==
            << <<"Section">>, <<"Timestamp">>, <<"Element">>, <<"Observation">>,
               <<"Interpretation">>, <<"Confidence">>, <<"API_Source">>,
               <<"Micro_Expressions">>, <<"Significance">> >>
        \* The row of an observation (659-687).
        ObservationRow(section, timestamp, obs) ==
            << section, timestamp, escapeCSV(obs.cue), escapeCSV(obs.observation),
               escapeCSV(obs.implication), RoundPercent(obs.confidence),
               OrEmpty(obs, "apiSource"), MicroExpressionsOf(obs), << >> >>
        \* The row of a signal cluster (693-703).
        ClusterRow(cluster) ==
            << <<"Signal_Cluster">>,
               cluster.timeWindow.start \o <<"-">> \o cluster.timeWindow.end,
               escapeCSV(cluster.name), escapeCSV(Join(cluster.signals, <<"; ">>)),
               escapeCSV(cluster.interpretation), RoundPercent(cluster.confidence),
               << >>, << >>, cluster.significance >>
        \* The row of a stress or comfort indicator (710-720).
        IndicatorRow(indicator) ==
            << indicator.type \o <<"_Indicator">>, indicator.timeStamp,
               indicator.type \o <<"_Response">>,
               escapeCSV(Join(indicator.behavioralMarkers, <<"; ">>)),
               <<"Level: ">> \o RoundPercent(indicator.level) \o <<"%">>,
               RoundPercent(indicator.reliability), << >>, << >>, << >> >>
        \* The rows of a phase's observations.
        PhaseRows(phase) ==
            [i \in 1..Len(phase.observations) |->
                ObservationRow(escapeCSV(phase.phaseName),
                               OrEmpty(phase.observations[i], "timestamp"),
                               phase.observations[i])]
        baseline == report.baselineCalibration.observations
        phases == report.analysisPhases
        clusters ==
            IF options.includeAdvancedAnalysis /\ "signalClusters" \in DOMAIN report
            THEN report.signalClusters ELSE << >>
        indicators ==
            IF options.includeAdvancedAnalysis
               /\ "stressComfortIndicators" \in DOMAIN report
            THEN report.stressComfortIndicators ELSE << >>
        rows ==
            <<header>>
            \o [i \in 1..Len(baseline) |->
                  ObservationRow(<<"Baseline">>, << >>, baseline[i])]
            \o Join([i \in 1..Len(phases) |-> PhaseRows(phases[i])], << >>)
            \o [i \in 1..Len(clusters) |-> ClusterRow(clusters[i])]
            \o [i \in 1..Len(indicators) |-> IndicatorRow(indicators[i])]
    IN  [rows |-> rows,
         data |-> Join([i \in 1..Len(rows) |-> Join(rows[i], <<",">>)], <<"\n">>)]

\* The reports the export is made of: one source of rows each.  apiSource,
\* microExpressions and timestamp are optional in an observation,
\* signalClusters and stressComfortIndicators in a report.
CSVReports ==
    LET PlainText == <<"Posture">>
        SpecialText == <<"a", ",", "b", "\"", "c">>
        TwoLineText == <<"x", "\n", "y">>
        required ==
            [cue : {PlainText, SpecialText}, observation : {PlainText, TwoLineText},
             implication : {PlainText}, confidence : {800, 755}]
        withSource ==
            required
            \cup { Assign(obs, "apiSource", src) :
                     obs \in required, src \in {<<"google-vision">>, <<"a", ",", "b">>} }
        baselineObservations ==
            withSource
            \cup { Assign(obs, "microExpressions",
                          << <<"crow's feet">>, <<"cheek raise">> >>) :
                     obs \in withSource }
        phaseObservations ==
            baselineObservations
            \cup { Assign(obs, "timestamp", <<"00:15">>) : obs \in baselineObservations }
        clusters ==
            [name : {<<"Confidence Cluster">>},
             signals : { << <<"Open posture and steady eye contact">>, SpecialText >>,
                         << PlainText >> },
             interpretation : {PlainText, SpecialText},
             confidence : {850},
             timeWindow : {[start |-> <<"00:00">>, end |-> <<"00:10">>]},
             significance : {<<"high">>, <<"medium">>}]
        indicators ==
            [type : {<<"stress">>, <<"comfort">>},
             level : {667, 1000},
             behavioralMarkers :
                { << >>, << <<"fidgeting">>, <<"pen", ",", "clicking">> >> },
             timeStamp : {<<"00:15">>},
             reliability : {400}]
        empty == [baselineCalibration |-> [observations |-> << >>],
                  analysisPhases |-> << >>]
        advanced == Assign(Assign(empty, "signalClusters", << >>),
                           "stressComfortIndicators", << >>)
    IN  {empty, advanced}
        \cup { [advanced EXCEPT !.baselineCalibration.observations = <<obs>>] :
                 obs \in baselineObservations }
        \cup { [advanced EXCEPT !.analysisPhases =
                  <<[phaseName |-> name, observations |-> <<obs>>]>>] :
                 name \in {<<"Engagement Phase">>, SpecialText},
                 obs \in phaseObservations }
        \cup { [advanced EXCEPT !.signalClusters = <<cluster>>] : cluster \in clusters }
        \cup { [advanced EXCEPT !.stressComfortIndicators = <<indicator>>] :
                 indicator \in indicators }

InitCSV ==
    /\ csvReport \in CSVReports
    /\ csvOptions \in [includeAdvancedAnalysis : BOOLEAN]
    /\ csvPc = "ready"
    /\ csvRows = << >>
    /\ csvData = << >>
    /\ fnIdle
    /\ engineIdle
    /\ initIdle
    /\ liveIdle
    /\ cultureIdle
    /\ exportIdle
    /\ recIdle
    /\ arIdle
    /\ ssIdle
    /\ efIdle

\* exportToCSV(report, options) (Donald.ts 319-323)
ExportToCSV ==
    LET out == generateCSVData(csvReport, csvOptions)
    IN  /\ csvPc = "ready"
        /\ csvPc' = "generated"
        /\ csvRows' = out.rows
        /\ csvData' = out.data
        /\ UNCHANGED <<notCSV, csvReport, csvOptions>>

NextCSV == ExportToCSV

SpecCSV == InitCSV /\ [][NextCSV]_vars

(***************************************************************************)
(* Recommendations of the forensic report (SpecRecommendations)            *)
(*                                                                         *)
(* A recommendation is modelled by its priority and its action.            *)
(***************************************************************************)

Levels == {"Low", "Moderate", "High"}

\* The context presets of the interface, and 'live', which stopLiveAnalysis
\* gives.
ContextPresets ==
    {"meeting", "interview", "presentation", "negotiation", "date", "therapy",
     "sales", "training", "live"}

\* recommendations.sort((a, b) => priorityOrder[a.priority] -
\* priorityOrder[b.priority]): the sort is stable.
SortByPriority(list) ==
    SelectSeq(list, LAMBDA r : r.priority = "High")
    \o SelectSeq(list, LAMBDA r : r.priority = "Medium")
    \o SelectSeq(list, LAMBDA r : r.priority = "Low")

\* The switch without its break statements, to compare with.
generateRecommendations_fallThrough(summary, preset) ==
    SortByPriority(
        (IF summary.skepticismLevel # "Low"
         THEN <<[priority |-> "High", action |-> "Address specific concerns"]>>
         ELSE << >>)
        \o (IF preset = "interview"
            THEN <<[priority |-> "High", action |-> "Prepare concrete examples"]>>
            ELSE << >>)
        \o (IF preset \in {"interview", "negotiation"}
            THEN <<[priority |-> "Medium", action |-> "Present alternative proposals"]>>
            ELSE << >>)
        \o (IF preset \in {"interview", "negotiation", "presentation"}
            THEN <<[priority |-> "High", action |-> "Offer interactive demonstration"]>>
            ELSE << >>)
        \o (IF summary.engagementLevel = "High"
            THEN <<[priority |-> "Medium", action |-> "Capitalize on high engagement"]>>
            ELSE << >>))

\* generateRecommendations (forensicReportService.ts 498-558)
generateRecommendations(summary, preset) ==
    SortByPriority(
        (IF summary.skepticismLevel # "Low"
         THEN <<[priority |-> "High", action |-> "Address specific concerns"]>>
         ELSE << >>)
        \o (CASE preset = "interview" ->
                    <<[priority |-> "High", action |-> "Prepare concrete examples"]>>
              [] preset = "negotiation" ->
                    <<[priority |-> "Medium", action |-> "Present alternative proposals"]>>
              [] preset = "presentation" ->
                    <<[priority |-> "High", action |-> "Offer interactive demonstration"]>>
              [] OTHER -> << >>)
        \o (IF summary.engagementLevel = "High"
            THEN <<[priority |-> "Medium", action |-> "Capitalize on high engagement"]>>
            ELSE << >>))

InitRecommendations ==
    /\ recSummary \in [skepticismLevel : Levels, engagementLevel : Levels]
    /\ recPreset \in ContextPresets
    /\ recPc = "ready"
    /\ recommendations = << >>
    /\ fnIdle
    /\ engineIdle
    /\ initIdle
    /\ liveIdle
    /\ cultureIdle
    /\ exportIdle
    /\ csvIdle
    /\ arIdle
    /\ ssIdle
    /\ efIdle

\* generateForensicReport's call (forensicReportService.ts 153)
GenerateRecommendations ==
    /\ recPc = "ready"
    /\ recPc' = "returned"
    /\ recommendations' = generateRecommendations(recSummary, recPreset)
    /\ UNCHANGED <<notRecommendations, recSummary, recPreset>>

SpecRecommendations == InitRecommendations /\ [][GenerateRecommendations]_vars

(***************************************************************************)
(* The analyses of the forensic report (SpecReport)                        *)
(*                                                                         *)
(* A time 'MM:SS' is the sequence of its numbers.  The text of an event is *)
(* read through includes() only: Keywords gives, for each text, the words  *)
(* the code looks for that its lower-case form includes.  An observation   *)
(* is modelled by its cue, confidence and timestamp, a cluster by its      *)
(* name, signals, time window and significance.                            *)
(***************************************************************************)

MaxTimeline == 3

Keywords ==
    [ x \in {"Claude Code analysis completed",
             "Clear speech, incongruent gestures",
             "Eye accessing cues detected - up-left then down-right",
             "Eye movement pattern analysis",
             "Facial analysis started",
             "Facial pattern analysis",
             "Forward lean detected in text description",
             "Full body posture detected with gesture analysis",
             "Incongruent open posture",
             "Micro-expressions detected in facial region",
             "Positive facial expression identified",
             "Postural analysis started",
             "Postural shift analysis",
             "Subject leans forward with a genuine smile",
             "Subject nods, tension in the forehead, fidgeting",
             "Text analysis initiated",
             "Upper body posture and gestures analyzed",
             "Vocal analysis started",
             "Vocal tone analysis",
             "Voice stress patterns detected"} |->
        CASE x = "Clear speech, incongruent gestures" ->
                {"clear speech", "incongruent"}
          [] x = "Eye accessing cues detected - up-left then down-right" ->
                {"down", "eye", "left", "right", "up"}
          [] x = "Eye movement pattern analysis" ->
                {"eye"}
          [] x = "Forward lean detected in text description" ->
                {"forward", "forward lean", "lean"}
          [] x = "Full body posture detected with gesture analysis" ->
                {"full body"}
          [] x = "Incongruent open posture" ->
                {"incongruent", "open", "open posture"}
          [] x = "Positive facial expression identified" ->
                {"positive"}
          [] x = "Subject leans forward with a genuine smile" ->
                {"forward", "lean", "smile"}
          [] x = "Subject nods, tension in the forehead, fidgeting" ->
                {"fidget", "no", "nod", "nods", "tension"}
          [] x = "Upper body posture and gestures analyzed" ->
                {"up"}
          [] OTHER -> {} ]

\* event.event.toLowerCase().includes(keyword) for one of the keywords
IncludesAny(e, keywords) == Keywords[e.event] \cap keywords # {}

\* The events of the timelines.
TimelineEvents ==
    { Event(<<0, 2>>, "Incongruent open posture", 850, "google-video-analysis"),
      Event(<<0, 5>>, "Clear speech, incongruent gestures", 800, "openai-audio-analysis"),
      Event(<<0, 10>>, "Subject leans forward with a genuine smile", 900,
            "google-video-analysis"),
      Event(<<0, 15>>, "Subject leans forward with a genuine smile", 900,
            "google-video-analysis"),
      Event(<<0, 20>>, "Positive facial expression identified", 900, "ai-text-pattern"),
      Event(<<0, 30>>, "Subject leans forward with a genuine smile", 0,
            "google-video-analysis"),
      Event(<<0, 31>>, "Subject nods, tension in the forehead, fidgeting", 780,
            "google-vision-faces"),
      Event(<<1, 5>>, "Eye accessing cues detected - up-left then down-right", 820,
            "internal-eye-tracking") }

\* parseTimeToSeconds (forensicReportService.ts 575-578,
\* advancedBehavioralAnalysis.ts 350-353)
parseTimeToSeconds(time) ==
    IF Len(time) = 2 THEN time[1] * 60 + time[2] ELSE time[1]

\* An event in the bucket of the time before its own, to compare with.
extractPhases_strict(tl) ==
    LET seconds(e) == parseTimeToSeconds(e.time)
    IN  [baseline |-> SelectSeq(tl, LAMBDA e : seconds(e) < 10),
         engagement |-> SelectSeq(tl, LAMBDA e : seconds(e) >= 10 /\ seconds(e) < 30),
         challenge |-> SelectSeq(tl, LAMBDA e : seconds(e) >= 30 /\ seconds(e) < 50),
         decision |-> SelectSeq(tl, LAMBDA e : seconds(e) >= 50),
         reinforcement |->
            SelectSeq(tl, LAMBDA e :
                IncludesAny(e, {"smile", "nod", "lean forward", "open", "agree", "yes",
                                "good"}))]

\* extractPhases (forensicReportService.ts 175-206)
extractPhases(tl) ==
    LET seconds(e) == parseTimeToSeconds(e.time)
    IN  [baseline |-> SelectSeq(tl, LAMBDA e : seconds(e) <= 10),
         engagement |-> SelectSeq(tl, LAMBDA e : seconds(e) > 10 /\ seconds(e) <= 30),
         challenge |-> SelectSeq(tl, LAMBDA e : seconds(e) > 30 /\ seconds(e) <= 50),
         decision |-> SelectSeq(tl, LAMBDA e : seconds(e) > 50),
         \* isPositiveReinforcement (580-585)
         reinforcement |->
            SelectSeq(tl, LAMBDA e :
                IncludesAny(e, {"smile", "nod", "lean forward", "open", "agree", "yes",
                                "good"}))]

\* analyzeMainPhases (forensicReportService.ts 254-273) with the three
\* analyses it calls.
analyzeMainPhases(phases) ==
    LET Select(events, keywords) ==
            SelectSeq(events, LAMBDA e : IncludesAny(e, keywords))
        \* The observations pushed for each event of a list: confidence is
        \* event.confidence || byDefault.
        ObservationsOf(events, cue, implication, byDefault) ==
            [i \in 1..Len(events) |->
                [cue |-> cue,
                 implication |-> implication,
                 confidence |-> IF events[i].confidence = 0 THEN byDefault
                                ELSE events[i].confidence,
                 timestamp |-> events[i].time]]
        \* analyzeEngagementPhase (275-327)
        analyzeEngagementPhase(events) ==
            LET \* events.find(...): the first such event, if any
                leaning == Select(events, {"lean", "forward"})
                forwardLean == IF leaning = << >> THEN << >> ELSE <<Head(leaning)>>
                \* findEyeAccessingCues (646-657)
                eyeAccess ==
                    Select(Select(events, {"eye"}), {"up", "down", "left", "right"})
            IN  [phaseName |-> "Engagement Phase",
                 observations |->
                    ObservationsOf(forwardLean, "Forward Lean & Micro-Nods",
                                   "Intellectual curiosity; nods are \"continue\" cues, not unconditional agreement",
                                   850)
                    \o (IF Len(eyeAccess) > 0
                        THEN <<[cue |-> "Eye-Accessing Cues",
                                implication |->
                                  "Processing information through visual recall and internal dialogue patterns",
                                confidence |-> 800]>>
                        ELSE << >>)
                    \o ObservationsOf(Select(events, {"lip", "mouth"}),
                                      "Subtle Lip Compression",
                                      "Evaluative skepticism - weighing information critically",
                                      750)]
        \* analyzeChallengePhase (329-381)
        analyzeChallengePhase(events) ==
            [phaseName |-> "Challenge/Clarification Phase",
             observations |->
                ObservationsOf(Select(events, {"eyebrow", "brow"}),
                               "Eyebrow Single-Raise & Head Tilt",
                               "Subject likely probing for clarification or challenging assumptions",
                               900)
                \o ObservationsOf(Select(events, {"chin", "face touch"}),
                                  "Hand-to-Chin Gesture",
                                  "Deep analytical processing; demands convincing rationale",
                                  850)
                \o ObservationsOf(Select(events, {"tension", "furrow", "frown"}),
                                  "Micro-Tension in Forehead",
                                  "Potential concern about feasibility or implementation",
                                  700)]
        \* analyzeReinforcementPhase (383-424)
        analyzeReinforcementPhase(events) ==
            [phaseName |-> "Positive Reinforcement Moments",
             observations |->
                ObservationsOf(Select(events, {"smile", "duchenne"}), "Genuine Smile",
                               "Authentic approval of concept or presentation element", 950)
                \o ObservationsOf(Select(events, {"open", "palm"}),
                                  "Open-Palm Gesture While Speaking",
                                  "Offers constructive feedback; collaborative stance",
                                  850)]
    IN  (IF Len(phases.engagement) > 0
         THEN <<analyzeEngagementPhase(phases.engagement)>> ELSE << >>)
        \o (IF Len(phases.challenge) > 0
            THEN <<analyzeChallengePhase(phases.challenge)>> ELSE << >>)
        \o (IF Len(phases.reinforcement) > 0
            THEN <<analyzeReinforcementPhase(phases.reinforcement)>> ELSE << >>)

\* The implication texts of the observations, each with those of the words
\* 'positive', 'interest', 'approval', 'skeptic', 'concern' and 'defensive'
\* that its lower-case form includes (the dash of 'skepticism - weighing'
\* is a long one in the source).
ImplicationKeywords ==
    [ x \in {"Intellectual curiosity; nods are \"continue\" cues, not unconditional agreement",
             "Processing information through visual recall and internal dialogue patterns",
             "Evaluative skepticism - weighing information critically",
             "Subject likely probing for clarification or challenging assumptions",
             "Deep analytical processing; demands convincing rationale",
             "Potential concern about feasibility or implementation",
             "Authentic approval of concept or presentation element",
             "Offers constructive feedback; collaborative stance",
             "Neutral-open baseline; no defensive bias at start",
             "Defensive or skeptical starting position",
             "Baseline comfort level established",
             "Signals active listening and readiness to process details",
             "Comfort; not yet invested emotionally",
             "Baseline gesture pattern established"} |->
        CASE x = "Evaluative skepticism - weighing information critically" -> {"skeptic"}
          [] x = "Potential concern about feasibility or implementation" -> {"concern"}
          [] x = "Authentic approval of concept or presentation element" -> {"approval"}
          [] x = "Neutral-open baseline; no defensive bias at start" -> {"defensive"}
          [] x = "Defensive or skeptical starting position" -> {"defensive", "skeptic"}
          [] OTHER -> {} ]

\* analyzeBaseline (forensicReportService.ts 208-252) with interpretPosture,
\* interpretEyeMovement and interpretHandPosition (601-639): an observation
\* for each of posture, eye_movement and gestures the signals hold;
\* confidence is data.confidence || the default of the cue.
analyzeBaseline(sigs) ==
    LET Observation(k, cue, implication, byDefault) ==
            IF k \in DOMAIN sigs
            THEN <<[cue |-> cue,
                    implication |-> implication,
                    confidence |-> IF sigs[k].confidence = 0 THEN byDefault
                                   ELSE sigs[k].confidence,
                    apiSource |-> sigs[k].apiSource]>>
            ELSE << >>
    IN  [phaseName |-> "Baseline Calibration (first 5-10 seconds)",
         observations |->
            Observation("posture", "Posture",
                        IF Includes(sigs["posture"].indicators, "open_posture")
                        THEN "Neutral-open baseline; no defensive bias at start"
                        ELSE IF Includes(sigs["posture"].indicators, "closed_posture")
                        THEN "Defensive or skeptical starting position"
                        ELSE "Baseline comfort level established",
                        800)
            \o Observation("eye_movement", "Eye Focus",
                           "Signals active listening and readiness to process details", 750)
            \o Observation("gestures", "Hands",
                           IF Includes(sigs["gestures"].indicators, "hands_open")
                           THEN "Comfort; not yet invested emotionally"
                           ELSE "Baseline gesture pattern established",
                           700)]

\* generateSummaryJudgment (forensicReportService.ts 457-496) with
\* countPositiveSignals, countNegativeSignals and calculateEngagementScore
\* (742-766): the three levels it derives from the phases it is given.
generateSummaryJudgment(phases) ==
    LET RECURSIVE Reduce(_, _)
        \* phases.reduce((count, phase) => count + phase.observations.filter(...).length, 0)
        Reduce(ps, keywords) ==
            IF ps = << >> THEN 0
            ELSE Len(SelectSeq(Head(ps).observations,
                               LAMBDA o : ImplicationKeywords[o.implication] \cap keywords
                                          # {}))
                 + Reduce(Tail(ps), keywords)
        positiveSignals == Reduce(phases, {"positive", "interest", "approval"})
        negativeSignals == Reduce(phases, {"skeptic", "concern", "defensive"})
        totalObservations == SeqSum([i \in 1..Len(phases) |-> Len(phases[i].observations)])
        \* engagementScore = num / den; 0.5 without observations
        num == IF totalObservations > 0 THEN positiveSignals ELSE 1
        den == IF totalObservations > 0 THEN totalObservations ELSE 2
    IN  [engagementLevel |-> IF 10 * num > 7 * den THEN "High"
                             ELSE IF 10 * num > 4 * den THEN "Moderate" ELSE "Low",
         skepticismLevel |-> IF negativeSignals > 3 THEN "High"
                             ELSE IF negativeSignals > 1 THEN "Moderate" ELSE "Low",
         opennessToNext |-> IF positiveSignals > negativeSignals * 2 THEN "Excellent"
                            ELSE IF positiveSignals > negativeSignals THEN "Good"
                            ELSE IF positiveSignals = negativeSignals THEN "Fair"
                            ELSE "Poor"]

\* The signals of the AnalysisResults given to the report: those of the demo
\* (forensicReportDemo.ts 9-35, posture open) and the same with a closed
\* posture or with the posture indicators of the engine.
ReportSignals ==
    LET Demo(posture) ==
            [facial_expression |->
                Signal(850, <<"lip_compression", "eyebrow_flash", "genuine_smile",
                              "micro_tension">>, "google-vision"),
             voice_tone |->
                Signal(780, <<"pitch_variance", "speech_rate_increase", "vocal_clarity">>,
                       "openai-whisper"),
             posture |-> Signal(910, posture, "google-video-intelligence"),
             gestures |->
                Signal(880, <<"hand_to_chin", "open_palm_gestures", "purposeful_movements">>,
                       "google-video-intelligence"),
             eye_movement |->
                Signal(820, <<"gaze_direction_up_left", "sustained_eye_contact",
                              "pupil_dilation">>, "internal-eye-tracking")]
    IN  { Demo(<<"forward_lean", "open_posture", "shoulder_alignment">>),
          Demo(<<"forward_lean", "closed_posture">>),
          Demo(<<"movement-patterns", "spatial-positioning">>) }

\* analyzeTemporalPatterns (advancedBehavioralAnalysis.ts 204-230) on an
\* AnalysisResult with the five canonical signals, with the helpers it calls.
analyzeTemporalPatterns(tl) ==
    LET \* createTimeSeriesData (509-515): signalKey is not read.
        createTimeSeriesData(signalKey) ==
            [i \in 1..Len(tl) |-> [time |-> tl[i].time, value |-> tl[i].confidence]]
        \* calculateTrend (517-530): the slope is num / (den * 1000), the
        \* values being in permille.
        calculateTrend(timePoints) ==
            LET n == Len(timePoints)
                sumX == SeqSum([i \in 1..n |-> i - 1])
                sumY == SeqSum([i \in 1..n |-> timePoints[i].value])
                sumXY == SeqSum([i \in 1..n |-> (i - 1) * timePoints[i].value])
                sumXX == SeqSum([i \in 1..n |-> (i - 1) * (i - 1)])
            IN  [num |-> n * sumXY - sumX * sumY, den |-> n * sumXX - sumX * sumX]
        \* identifyPattern (532-544): the slope against 0.01 and -0.01; at
        \* either of the two the variance of the values against 0.1.
        identifyPattern(timePoints) ==
            LET trend == calculateTrend(timePoints)
                n == Len(timePoints)
                values == [i \in 1..n |-> timePoints[i].value]
                sumSquares ==
                    SeqSum([i \in 1..n |-> (n * values[i] - SeqSum(values))
                                           * (n * values[i] - SeqSum(values))])
            IN  IF trend.num < 10 * trend.den /\ -trend.num < 10 * trend.den
                THEN "stable"
                ELSE IF trend.num > 10 * trend.den THEN "increasing"
                ELSE IF -trend.num > 10 * trend.den THEN "decreasing"
                ELSE IF 10 * sumSquares > n * n * n * 1000000 THEN "erratic"
                ELSE "stable"
        \* The body of the loop (211-227): the patterns pushed for a signal.
        PatternsOf(signalKey) ==
            LET timePoints == createTimeSeriesData(signalKey)
            IN  IF Len(timePoints) >= 3
                THEN <<[pattern |-> identifyPattern(timePoints), signal |-> signalKey,
                        timePoints |-> timePoints,
                        trend |-> calculateTrend(timePoints)]>>
                ELSE << >>
    IN  PatternsOf(CanonicalKeys[1]) \o PatternsOf(CanonicalKeys[2])
        \o PatternsOf(CanonicalKeys[3]) \o PatternsOf(CanonicalKeys[4])
        \o PatternsOf(CanonicalKeys[5])

\* createTimeWindows (advancedBehavioralAnalysis.ts 405-417): from the time of
\* the first element to the time of the last one.
createTimeWindows(tl, windowSize) ==
    LET firstTime == parseTimeToSeconds(tl[1].time)
        lastTime == parseTimeToSeconds(tl[Len(tl)].time)
        RECURSIVE From(_)
        From(start) ==
            IF start < lastTime
            THEN <<[start |-> start,
                    end |-> IF start + windowSize < lastTime THEN start + windowSize
                            ELSE lastTime]>>
                 \o From(start + windowSize)
            ELSE << >>
    IN  IF tl = << >> THEN << >> ELSE From(firstTime)

\* clusters.sort((a, b) => b.significance === 'high' ? 1 : -1)
\* (advancedBehavioralAnalysis.ts 201) as the engine's algorithm computes
\* it: an insertion sort (from the left, an element moves down past every
\* element that compares greater) or a merge sort (the right element is
\* taken when the left one compares greater).  The comparator reads b only
\* and never returns 0.
ArraySort(array, engine) ==
    LET compare(a, b) == IF b.significance = "high" THEN 1 ELSE -1
        RECURSIVE Insert(_, _)
        Insert(sorted, element) ==
            IF sorted = << >> THEN <<element>>
            ELSE IF compare(sorted[Len(sorted)], element) > 0
                 THEN Insert(SubSeq(sorted, 1, Len(sorted) - 1), element)
                      \o <<sorted[Len(sorted)]>>
                 ELSE sorted \o <<element>>
        RECURSIVE InsertionSort(_, _)
        InsertionSort(sorted, rest) ==
            IF rest = << >> THEN sorted
            ELSE InsertionSort(Insert(sorted, Head(rest)), Tail(rest))
        RECURSIVE Merge(_, _)
        Merge(left, right) ==
            IF left = << >> THEN right
            ELSE IF right = << >> THEN left
            ELSE IF compare(Head(left), Head(right)) > 0
                 THEN <<Head(right)>> \o Merge(left, Tail(right))
                 ELSE <<Head(left)>> \o Merge(Tail(left), right)
        RECURSIVE MergeSort(_)
        MergeSort(list) ==
            IF Len(list) <= 1 THEN list
            ELSE Merge(MergeSort(SubSeq(list, 1, Len(list) \div 2)),
                       MergeSort(SubSeq(list, Len(list) \div 2 + 1, Len(list))))
    IN  IF engine = "insertion" THEN InsertionSort(<< >>, array) ELSE MergeSort(array)

\* The clusters of the windows of a timeline (advancedBehavioralAnalysis.ts
\* 181-201), sorted.
ClustersOf(tl, windows, engine) ==
    LET \* this.formatTime (355-359)
        Format(seconds) == <<seconds \div 60, seconds % 60>>
        \* getSignalsInWindow (419-430): the events of the window
        EventsIn(window) ==
            SelectSeq(tl, LAMBDA e : /\ parseTimeToSeconds(e.time) >= window.start
                                     /\ parseTimeToSeconds(e.time) < window.end)
        \* detectConfidenceCluster, detectEngagementCluster,
        \* detectDeceptionCluster, detectStressCluster (432-506); the
        \* indicators are given after indicator.replace('_', ' ')
        Detect(window, indicators, name, confidence, significance) ==
            LET presentIndicators ==
                    SelectSeq(EventsIn(window), LAMBDA e : IncludesAny(e, indicators))
            IN  IF Len(presentIndicators) >= 2
                THEN <<[name |-> name,
                        signals |-> [i \in 1..Len(presentIndicators) |->
                                        presentIndicators[i].event],
                        confidence |-> confidence,
                        timeWindow |-> [start |-> Format(window.start),
                                        end |-> Format(window.end)],
                        significance |-> significance]>>
                ELSE << >>
        OfWindow(window) ==
            Detect(window,
                   {"open posture", "steady eye_contact", "purposeful gestures",
                    "clear speech"},
                   "Confidence Cluster", 850, "high")
            \o Detect(window, {"forward lean", "nods", "eye contact", "active listening"},
                      "Engagement Cluster", 800, "high")
            \o Detect(window,
                      {"touch face", "avoid eye_contact", "speech hesitation",
                       "incongruent"},
                      "Potential Deception Cluster", 650, "medium")
            \o Detect(window, {"tension", "fidget", "rapid_speech", "defensive"},
                      "Stress Response Cluster", 780, "high")
        RECURSIVE OfWindows(_)
        OfWindows(ws) ==
            IF ws = << >> THEN << >> ELSE OfWindow(Head(ws)) \o OfWindows(Tail(ws))
    IN  ArraySort(OfWindows(windows), engine)

\* The time of the last event taken with timeline.pop(), to compare with.
detectSignalClusters_pop(tl, engine) ==
    [clusters |-> ClustersOf(tl, createTimeWindows(tl, 10), engine),
     timeline |-> IF tl = << >> THEN tl ELSE SubSeq(tl, 1, Len(tl) - 1)]

\* detectSignalClusters (advancedBehavioralAnalysis.ts 177-202): the list it
\* returns and what the caller's timeline holds afterwards.
detectSignalClusters(tl, engine) ==
    [clusters |-> ClustersOf(tl, createTimeWindows(tl, 10), engine),
     timeline |-> tl]

InitReport ==
    /\ arTimeline \in UNION { [1..n -> TimelineEvents] : n \in 0..MaxTimeline }
    /\ arSignals \in ReportSignals
    /\ arEngine \in {"insertion", "merge"}
    /\ arPc = "ready"
    /\ arPhases = << >>
    /\ arBaseline = << >>
    /\ arSummary = << >>
    /\ arPatterns = << >>
    /\ arClusters = << >>
    /\ arClustersAgain = << >>
    /\ fnIdle
    /\ engineIdle
    /\ initIdle
    /\ liveIdle
    /\ cultureIdle
    /\ exportIdle
    /\ csvIdle
    /\ recIdle
    /\ ssIdle
    /\ efIdle

\* The summary judgment made from the baseline phase as well, to compare with.
AnalyzePhases_withBaseline ==
    /\ arPc = "ready"
    /\ arPc' = "phases"
    /\ arBaseline' = analyzeBaseline(arSignals)
    /\ arPhases' = analyzeMainPhases(extractPhases(arTimeline))
    /\ arSummary' = generateSummaryJudgment(<<arBaseline'>> \o arPhases')
    /\ UNCHANGED <<notReport, arTimeline, arSignals, arEngine, arPatterns, arClusters,
                   arClustersAgain>>

\* generateForensicReport: the phases, the baseline phase and the summary
\* judgment (forensicReportService.ts 148-152); generateSummaryJudgment is
\* given analysisPhases.
AnalyzePhases ==
    /\ arPc = "ready"
    /\ arPc' = "phases"
    /\ arBaseline' = analyzeBaseline(arSignals)
    /\ arPhases' = analyzeMainPhases(extractPhases(arTimeline))
    /\ arSummary' = generateSummaryJudgment(arPhases')
    /\ UNCHANGED <<notReport, arTimeline, arSignals, arEngine, arPatterns, arClusters,
                   arClustersAgain>>

\* generateForensicReport: the temporal patterns (forensicReportService.ts 135)
AnalyzeTemporalPatterns ==
    /\ arPc = "ready"
    /\ arPc' = "patterns"
    /\ arPatterns' = analyzeTemporalPatterns(arTimeline)
    /\ UNCHANGED <<notReport, arTimeline, arSignals, arEngine, arPhases, arBaseline,
                   arSummary, arClusters, arClustersAgain>>

\* A call of detectSignalClusters on the AnalysisResult: the first and the
\* second.
DetectSignalClusters ==
    LET out == detectSignalClusters(arTimeline, arEngine)
    IN  /\ arPc \in {"ready", "clusters"}
        /\ arPc' = IF arPc = "ready" THEN "clusters" ELSE "clustersAgain"
        /\ arClusters' = IF arPc = "ready" THEN out.clusters ELSE arClusters
        /\ arClustersAgain' = IF arPc = "ready" THEN arClustersAgain ELSE out.clusters
        /\ arTimeline' = out.timeline
        /\ UNCHANGED <<notReport, arSignals, arEngine, arPhases, arBaseline, arSummary,
                       arPatterns>>

NextReport ==
    \/ AnalyzePhases
    \/ DetectSignalClusters
    \/ AnalyzeTemporalPatterns

SpecReport == InitReport /\ [][NextReport]_vars


(***************************************************************************)
(* The forensic report of an engine result (Spec)                          *)
(*                                                                         *)
(* The UI keeps the AnalysisResult an entry point returned and hands it,   *)
(* with its culturalContext, to generateForensicReport.                    *)
(***************************************************************************)

\* generateConfidenceNote (forensicReportService.ts 560-572) with
\* countActiveAPIs (870-878): the paragraph, named by the confidence it
\* states, for the AnalysisResult data.  mediaType "" is a mediaType that
\* was never set.
generateConfidenceNote(data) ==
    LET hasVideo == data.mediaType \in {"video", "live"}
        hasAudio == "voice_tone" \in DOMAIN data.signals
        apiCount ==
            Cardinality({data.signals[k].apiSource :
                            k \in DOMAIN data.signals} \ {""})
    IN  IF hasVideo /\ hasAudio /\ apiCount >= 3
        THEN "high confidence (~85-90% accuracy)"
        ELSE IF hasVideo /\ apiCount >= 2
        THEN "highly predictive (~70-75% accuracy)"
        ELSE "moderate (~60-65%)"

\* extractDecisionIndicators (forensicReportService.ts 426-455) with
\* checkForIncongruence, checkForShoulderShrug, checkFeetOrientation and
\* checkClosingBehaviors (690-740): the presence of each indicator.
extractDecisionIndicators(decisionEvents, data) ==
    LET Some(events, keywords) == \E i \in 1..Len(events) : IncludesAny(events[i], keywords)
        checkForIncongruence ==
            \/ Some(decisionEvents, {"incongruent"})
            \/ \E i \in 1..Len(decisionEvents) :
                    /\ IncludesAny(decisionEvents[i], {"no"})
                    /\ IncludesAny(decisionEvents[i], {"positive"})
        checkFeetOrientation ==
            \/ /\ "posture" \in DOMAIN data.signals
               /\ Includes(data.signals["posture"].indicators, "full-body-visible")
            \/ Some(data.timeline, {"full body", "feet", "stance", "lower body"})
    IN  <<[indicator |-> "Head-Shake \"No\" synced with positive words",
           presence |-> IF checkForIncongruence THEN "Present" ELSE "Absent"],
          [indicator |-> "Shoulder Shrug (uncertainty)",
           presence |-> IF Some(decisionEvents, {"shrug"}) THEN "Partial" ELSE "Absent"],
          [indicator |-> "Feet Orientation",
           presence |-> IF checkFeetOrientation THEN "Present" ELSE "Absent"],
          [indicator |-> "Closing Behaviors",
           presence |-> IF Some(decisionEvents, {"closing", "wrap", "end"})
                        THEN "Present" ELSE "Absent"]>>

\* The UI's generateForensicReport (App.tsx 386-427) on the result it holds:
\* forensicReportService.generateForensicReport (forensicReportService.ts
\* 121-173) adjusts the result for the culture, through the signals object
\* it shares with the caller, and builds the report from the adjusted
\* data.  The culture is one the UI's select offers (App.tsx 1256-1261):
\* western, eastern, or one culturalContexts does not hold, such as nordic.
GenerateReport ==
    \E tag \in {"western", "eastern", "nordic"} :
        LET applied == applyCulturalContext(result.signals, tag)
            adjusted == [result EXCEPT !.signals = applied.signals]
            phases == extractPhases(adjusted.timeline)
        IN  /\ pc = "returned"
            /\ returned = "result"
            /\ forensicReport = NoReport
            /\ result' = adjusted
            /\ forensicReport' = [confidenceNote |-> generateConfidenceNote(adjusted),
                                  analysisPhases |-> analyzeMainPhases(phases),
                                  decisionIndicators |->
                                     extractDecisionIndicators(phases.decision,
                                                               adjusted)]
            /\ UNCHANGED <<notEngine, connected, sessionId, recording, startPreset, pc,
                           entry, mediaData, contextPreset, signals, timeline, alerts,
                           posturalData, analysisData, invoked, failed, returned>>

Next ==
    \/ StartLiveAnalysis
    \/ StopLiveAnalysis
    \/ AnalyzeUploadedMedia
    \/ AnalyzeTextInput
    \/ FacialStep
    \/ VocalStep
    \/ PosturalStep
    \/ GestureStep
    \/ ScoreStep
    \/ ClaudeStep
    \/ SupabaseStep
    \/ GithubStep
    \/ ReturnAnalysis
    \/ ResumeCaller
    \/ GenerateReport

Spec == Init /\ [][Next]_vars

(***************************************************************************)
(* Sessions overlapping on the engine (SpecSessions)                       *)
(*                                                                         *)
(* The engine is one exported instance; each entry point is an async       *)
(* method, so at every await another call may run.  A call is a session:   *)
(* it assigns this.sessionId at its start and reads it back when it builds *)
(* its AnalysisResult.  A session id is <<prefix, Date.now()>>.            *)
(***************************************************************************)

MaxSessions == 3

SessionCalls == 1..MaxSessions

NoSessionId == <<"", 0>>

\* A call that has not been made: own is the id assigned at its start,
\* order the index of its start among the starts, startsAtBuild the number
\* of starts when its result was built, sessionId the result's sessionId.
NoCall ==
    [kind |-> "none", at |-> "none", own |-> NoSessionId, order |-> 0,
     startsAtBuild |-> 0, sessionId |-> NoSessionId, returned |-> "none"]

InitSessions ==
    /\ ssSessionId = <<"", 0>>
    /\ ssNow = 1
    /\ ssStarted = << >>
    /\ ssCalls = [c \in SessionCalls |-> NoCall]
    /\ fnIdle
    /\ engineIdle
    /\ initIdle
    /\ liveIdle
    /\ cultureIdle
    /\ exportIdle
    /\ csvIdle
    /\ recIdle
    /\ arIdle
    /\ efIdle

\* this.sessionId = `<prefix>${Date.now()}` at the start of call c of the
\* kind given, which then waits at `at`.
AssignSessionId(c, kind, prefix, at) ==
    /\ ssCalls[c].at = "none"
    /\ ssSessionId' = <<prefix, ssNow>>
    /\ ssNow' = ssNow + 1
    /\ ssStarted' = Append(ssStarted, <<prefix, ssNow>>)
    /\ ssCalls' = [ssCalls EXCEPT ![c] =
                     [@ EXCEPT !.kind = kind, !.at = at, !.own = <<prefix, ssNow>>,
                               !.order = Len(ssStarted) + 1]]

\* The recorder of the media service is one: a live session is started
\* when no other live session is open.
NoLiveSession ==
    \A c \in SessionCalls :
        ssCalls[c].kind = "live" => ssCalls[c].at = "returned"

\* startLiveAnalysis, to its first await (initializeCamera).
SessionStartLive(c) ==
    /\ NoLiveSession
    /\ AssignSessionId(c, "live", "blindspot_", "starting")
    /\ UNCHANGED notSessions

\* startLiveAnalysis, from the awaits to its return: recording, or the
\* failure answer.
SessionLiveStarted(c) ==
    \E ok \in BOOLEAN :
        /\ ssCalls[c].at = "starting"
        /\ ssCalls' = [ssCalls EXCEPT ![c] =
                         IF ok THEN [@ EXCEPT !.at = "recording"]
                               ELSE [@ EXCEPT !.at = "returned", !.returned = "failure"]]
        /\ UNCHANGED <<notSessions, ssSessionId, ssNow, ssStarted>>

\* stopLiveAnalysis, to its await of stopRecording.
SessionStopLive(c) ==
    /\ ssCalls[c].at = "recording"
    /\ ssCalls' = [ssCalls EXCEPT ![c] = [@ EXCEPT !.at = "awaiting"]]
    /\ UNCHANGED <<notSessions, ssSessionId, ssNow, ssStarted>>

\* analyzeUploadedMedia, to its await of processUploadedFile.
SessionAnalyzeUploadedMedia(c) ==
    /\ AssignSessionId(c, "upload", "blindspot_upload_", "awaiting")
    /\ UNCHANGED notSessions

\* analyzeTextInput: with OpenAI or Anthropic connected
\* performTextBasedAnalysis awaits processTextWithAI before it builds the
\* result; with neither it builds the result without an await.
SessionAnalyzeTextInput(c) ==
    \E aiConnected \in BOOLEAN :
        /\ ssCalls[c].at = "none"
        /\ ssSessionId' = <<"blindspot_text_", ssNow>>
        /\ ssNow' = ssNow + 1
        /\ ssStarted' = Append(ssStarted, <<"blindspot_text_", ssNow>>)
        /\ ssCalls' = [ssCalls EXCEPT ![c] =
                         [@ EXCEPT !.kind = "text",
                                   !.own = <<"blindspot_text_", ssNow>>,
                                   !.order = Len(ssStarted) + 1,
                                   !.at = IF aiConnected THEN "awaiting" ELSE "built",
                                   !.startsAtBuild =
                                       IF aiConnected THEN 0 ELSE Len(ssStarted) + 1,
                                   !.sessionId =
                                       IF aiConnected THEN NoSessionId
                                       ELSE <<"blindspot_text_", ssNow>>]]
        /\ UNCHANGED notSessions

\* The awaits before the result is built throw (no recorded data, the file
\* cannot be read): the entry point returns null.
SessionFails(c) ==
    /\ ssCalls[c].at = "awaiting"
    /\ ssCalls[c].kind \in {"live", "upload"}
    /\ ssCalls' = [ssCalls EXCEPT ![c] = [@ EXCEPT !.at = "returned", !.returned = "null"]]
    /\ UNCHANGED <<notSessions, ssSessionId, ssNow, ssStarted>>

\* The awaits before the result are over: analysisData (or the returned
\* object of performTextBasedAnalysis) is built with sessionId:
\* this.sessionId.
SessionBuildsResult(c) ==
    /\ ssCalls[c].at = "awaiting"
    /\ ssCalls' = [ssCalls EXCEPT ![c] =
                     [@ EXCEPT !.at = "built", !.sessionId = ssSessionId,
                               !.startsAtBuild = Len(ssStarted)]]
    /\ UNCHANGED <<notSessions, ssSessionId, ssNow, ssStarted>>

\* The awaits after the result is built (narrative, storage, report) are
\* over and the entry point returns the result.
SessionReturns(c) ==
    /\ ssCalls[c].at = "built"
    /\ ssCalls' = [ssCalls EXCEPT ![c] = [@ EXCEPT !.at = "returned", !.returned = "result"]]
    /\ UNCHANGED <<notSessions, ssSessionId, ssNow, ssStarted>>

NextSessions ==
    \E c \in SessionCalls :
        \/ SessionStartLive(c)
        \/ SessionLiveStarted(c)
        \/ SessionStopLive(c)
        \/ SessionAnalyzeUploadedMedia(c)
        \/ SessionAnalyzeTextInput(c)
        \/ SessionFails(c)
        \/ SessionBuildsResult(c)
        \/ SessionReturns(c)

SpecSessions == InitSessions /\ [][NextSessions]_vars

(***************************************************************************)
(* The google-vision edge function (SpecUsage)                             *)
(*                                                                         *)
(* Money is counted in 1/10000 dollar, the unit of total_cost              *)
(* DECIMAL(10, 4).  Each request is served by its own invocation of the    *)
(* handler; invocations share the api_usage table only.                    *)
(***************************************************************************)

MONTHLY_LIMIT == 500000

API_COST_PER_REQUEST == 15

MaxRequests == 3

Requests == 1..MaxRequests

NoRow == [exists |-> FALSE, total_cost |-> 0, request_count |-> 0]

\* The row after n requests were served one after the other and recorded.
RowAfter(n) ==
    IF n = 0 THEN NoRow
    ELSE [exists |-> TRUE, total_cost |-> n * API_COST_PER_REQUEST, request_count |-> n]

\* The numbers of requests already recorded at the start: none, or so many
\* that two more, one more or no more fit under the limit.
RecordedAtStart ==
    {0} \cup { (MONTHLY_LIMIT \div API_COST_PER_REQUEST) - k : k \in 0..2 }

NoRequest == [at |-> "new", currentUsage |-> 0, request_count |-> 0, status |-> 0,
              error |-> ""]

InitUsage ==
    /\ \E n \in RecordedAtStart : efRow = RowAfter(n) /\ efServed = n
    /\ efRequests = [r \in Requests |-> NoRequest]
    /\ efOverlapped = FALSE
    /\ efUpdateFailed = FALSE
    /\ fnIdle
    /\ engineIdle
    /\ initIdle
    /\ liveIdle
    /\ cultureIdle
    /\ exportIdle
    /\ csvIdle
    /\ recIdle
    /\ arIdle
    /\ ssIdle

InFlight(r) == efRequests[r].at \notin {"new", "responded"}

\* The catch of the handler: status 400 with the message of the error.
Rejected(req, message) ==
    [req EXCEPT !.at = "responded", !.status = 400, !.error = message]

\* The handler from the request to the await of the select on api_usage:
\* getUser() gives the user or the request is rejected.
ReceiveRequest(r) ==
    \E authenticated \in BOOLEAN :
        /\ efRequests[r].at = "new"
        /\ efRequests' = [efRequests EXCEPT ![r] =
                            IF authenticated THEN [@ EXCEPT !.at = "select"]
                            ELSE Rejected(@, "Not authenticated")]
        /\ efOverlapped' = (efOverlapped \/ \E o \in Requests : InFlight(o))
        /\ UNCHANGED <<notUsage, efRow, efServed, efUpdateFailed>>

\* The select answers: the row, or no row (PGRST116), or another error.
\* currentUsage = usageData?.total_cost || 0, then the check against
\* MONTHLY_LIMIT.
CheckUsage(r) ==
    \E usageError \in BOOLEAN :
        /\ efRequests[r].at = "select"
        /\ efRequests' = [efRequests EXCEPT ![r] =
                            IF usageError
                            THEN Rejected(@, "Failed to check usage limits")
                            ELSE IF efRow.total_cost >= MONTHLY_LIMIT
                            THEN Rejected(@, "Monthly API limit exceeded")
                            ELSE [@ EXCEPT !.at = "vision",
                                           !.currentUsage = efRow.total_cost,
                                           !.request_count = efRow.request_count]]
        /\ UNCHANGED <<notUsage, efRow, efServed, efOverlapped, efUpdateFailed>>

\* The API key, the validation of the body and the call of the Vision API:
\* any of them throws, or the response is there.
CallVision(r) ==
    \E outcome \in {"response", "Google API key not configured",
                    "Missing or invalid action", "Google Vision API error"} :
        /\ efRequests[r].at = "vision"
        /\ efRequests' = [efRequests EXCEPT ![r] =
                            IF outcome = "response" THEN [@ EXCEPT !.at = "update"]
                            ELSE Rejected(@, outcome)]
        /\ UNCHANGED <<notUsage, efRow, efServed, efOverlapped, efUpdateFailed>>

\* The upsert on (user_id, month), made when currentUsage plus the cost is
\* within the limit; its error is logged only.  Then the response with
\* status 200.
UpdateUsage(r) ==
    \E updateError \in BOOLEAN :
        /\ efRequests[r].at = "update"
        /\ LET req == efRequests[r]
               upsert == req.currentUsage + API_COST_PER_REQUEST <= MONTHLY_LIMIT
           IN  /\ efRow' = IF upsert /\ ~updateError
                           THEN [exists |-> TRUE,
                                 total_cost |-> req.currentUsage + API_COST_PER_REQUEST,
                                 request_count |-> req.request_count + 1]
                           ELSE efRow
               /\ efUpdateFailed' = (efUpdateFailed \/ (upsert /\ updateError))
               /\ upsert \/ ~updateError
        /\ efRequests' = [efRequests EXCEPT ![r] =
                            [@ EXCEPT !.at = "responded", !.status = 200]]
        /\ efServed' = efServed + 1
        /\ UNCHANGED <<notUsage, efOverlapped>>

NextUsage ==
    \E r \in Requests :
        \/ ReceiveRequest(r)
        \/ CheckUsage(r)
        \/ CallVision(r)
        \/ UpdateUsage(r)

SpecUsage == InitUsage /\ [][NextUsage]_vars

(***************************************************************************)
(* Claims on the pure functions (SpecSignals)                              *)
(***************************************************************************)

\* What a key adds to the trust vector: confidence x w when the key is
\* present with a numeric confidence, nothing otherwise.
Contribution(sig, k, w) ==
    IF k \in DOMAIN sig /\ IsNumber(sig[k].confidence)
    THEN sig[k].confidence * w ELSE 0

C2_Scenario ==
    /\ fnPc = "alerts"
    /\ DOMAIN fnSignals = {CanonicalKeys[i] : i \in 1..Len(CanonicalKeys)}
    /\ fnSignals["facial_expression"].confidence = 950
    /\ \A k \in DOMAIN fnSignals \ {"facial_expression"} : fnSignals[k].confidence = 300

HasAlert(alertSeq, type, severity) ==
    \E i \in 1..Len(alertSeq) : alertSeq[i].type = type /\ alertSeq[i].severity = severity

\* C2 as stated: in the scenario an 'incongruence' alert of severity 'high'
\* is in alerts.
C2_HighIncongruence ==
    C2_Scenario => HasAlert(fnAlerts, "incongruence", "high")

\* C2 amended: in the scenario (variance 0.0676, above 0.05 and not above 0.1)
\* an 'incongruence' alert of severity 'medium' is in alerts, and none of
\* severity 'high'.
C2_MediumIncongruence ==
    C2_Scenario => /\ HasAlert(fnAlerts, "incongruence", "medium")
                   /\ ~HasAlert(fnAlerts, "incongruence", "high")

\* C2 witness: the scenario has run through generateAlerts and the
\* incongruence alert is there.
C2_Witness ==
    /\ C2_Scenario
    /\ \E i \in 1..Len(fnAlerts) : fnAlerts[i].type = "incongruence"


(***************************************************************************)
(* Claims on the sessions of the engine (Spec)                             *)
(***************************************************************************)

HasCanonicalSignals(res) ==
    \A i \in 1..Len(CanonicalKeys) :
        /\ CanonicalKeys[i] \in DOMAIN res.signals
        /\ IsNumber(res.signals[CanonicalKeys[i]].confidence)

AffectedSignals ==
    [analyzeFacialExpressions |-> {"facial_expression"},
     analyzeAudio |-> {"voice_tone"},
     analyzeVideo |-> {"posture", "gestures"},
     analyzeGestures |-> {"gestures"}]

\* C4 as stated: when an analysis adapter call has failed, a result is still
\* returned and each affected signal is a fixed literal with apiSource
\* 'fallback' that does not depend on another adapter's output.
C4_FixedFallbackLiteral ==
    (pc = "returned" /\ failed # {}) =>
        /\ returned = "result"
        /\ \A op \in failed \cap DOMAIN AffectedSignals :
             \A k \in AffectedSignals[op] :
                 result.signals[k] \in
                     {FacialFallback, VocalFallback, PostureFallback, GesturesFallback}

\* C4, what the code does: a result is returned; after a failed facial, vocal
\* or video call the affected signals are the fixed literals; after a failed
\* gesture call gestures is 0.9 times the posture confidence of the video
\* adapter, labelled 'google-video-intelligence'.
C4_FailureBehaviour ==
    (pc = "returned" /\ failed # {}) =>
        /\ returned = "result"
        /\ "analyzeFacialExpressions" \in failed =>
               result.signals["facial_expression"] = FacialFallback
        /\ "analyzeAudio" \in failed => result.signals["voice_tone"] = VocalFallback
        /\ "analyzeVideo" \in failed =>
               /\ result.signals["posture"] = PostureFallback
               /\ result.signals["gestures"] = GesturesFallback
        /\ "analyzeGestures" \in failed =>
               result.signals["gestures"] =
                   [confidence |-> TimesPointNine(result.signals["posture"].confidence),
                    indicators |-> <<"hand_movements", "gesture_timing">>,
                    apiSource |-> "google-video-intelligence", hasFullBody |-> FALSE]

\* A returned result after a failed gesture analysis; the video adapter had
\* reported a posture confidence of 0.78.
C4_Witness ==
    /\ pc = "returned"
    /\ returned = "result"
    /\ "analyzeGestures" \in failed
    /\ result.signals["posture"].confidence = 780
    /\ result.signals["gestures"].confidence = 702


(***************************************************************************)
(* Claims on initializeServices (SpecInit)                                 *)
(***************************************************************************)

\* The status key of each adapter.
KeyOfAdapter ==
    [supabaseService |-> "supabase", githubService |-> "github",
     openaiService |-> "openai", anthropicService |-> "anthropic",
     googleVisionService |-> "google", googleVideoService |-> "googleVideo",
     claudeCodeService |-> "claudeCode"]

\* C5: initializeServices never rejects; whatever the seven initialize() calls
\* fulfil with or reject with, it resolves to a map of the seven status keys
\* in which an entry is true exactly when that adapter's initialize()
\* fulfilled with true.
C5_StatusMap ==
    /\ initPc \in {"off", "start", "awaiting", "resolved"}
    /\ initPc = "resolved" =>
        /\ DOMAIN status = {KeyOfAdapter[a] : a \in Adapters}
        /\ \A a \in Adapters :
             status[KeyOfAdapter[a]] = TRUE
                <=> promise[a] = [status |-> "fulfilled", value |-> TRUE]

\* Resolved with a true entry beside one adapter that fulfilled with false and
\* one that rejected.
C5_Witness ==
    /\ initPc = "resolved"
    /\ status["googleVideo"] = TRUE
    /\ status["google"] = FALSE
    /\ promise["googleVisionService"].status = "rejected"
    /\ promise["openaiService"] = [status |-> "fulfilled", value |-> FALSE]
    /\ status["openai"] = FALSE

\* C6: every initialize() is called before initializeServices awaits, so the
\* initialize() of an adapter that can settle does settle, and the adapter is
\* connected once it has fulfilled with true, also while another adapter's
\* initialize() never settles.
C6_OthersFinish ==
    /\ [](initPc = "awaiting" => \A a \in Adapters : promise[a] # NotCalled)
    /\ [](\A a \in Adapters :
            (promise[a].status = "fulfilled" /\ promise[a].value) => isInitialized[a])
    /\ \A a \in Adapters :
         (initPc = "awaiting" /\ a \notin stuck) ~> (promise[a] # Pending)

\* Supabase never settles, initializeServices is still awaiting, and the last
\* adapter of the array is connected.
C6_Witness ==
    /\ initPc = "awaiting"
    /\ "supabaseService" \in stuck
    /\ promise["supabaseService"] = Pending
    /\ promise["claudeCodeService"] = [status |-> "fulfilled", value |-> TRUE]
    /\ isInitialized["claudeCodeService"]


(***************************************************************************)
(* Claims on live sessions (SpecLive)                                      *)
(***************************************************************************)

\* C7: whenever a stopLiveAnalysis call has completed and no
\* startLiveAnalysis call has begun after it, no sampling timer remains
\* scheduled, for every interleaving of start and stop calls.
C7_NoTimerAfterStop ==
    quiet => timers = {}

\* A start that succeeded, then a stop that returned its result: no timer is
\* left.
C7_Witness ==
    /\ quiet
    /\ Len(calls) = 2
    /\ calls[1] = Call("start", "started")
    /\ calls[2] = Call("stop", "result")
    /\ timers = {}


(***************************************************************************)
(* Claims on the cultural adjustment (SpecCulture)                         *)
(***************************************************************************)

\* C8: for every culture tag other than 'western' and 'eastern',
\* applyCulturalContext returns a result whose signals are all identical to
\* the input's, and raises no error.
C8_UnknownTagPassThrough ==
    (cuPc = "applied" /\ cuTag \notin {"western", "eastern", "undefined"}) =>
        /\ ~cuRaised
        /\ cuResult = cuBefore

\* C8, what the code does: the pass-through holds for the tags under which
\* the lookup finds nothing, inherited names excluded.
C8_NoContextPassThrough ==
    (cuPc = "applied"
     /\ cuTag \notin {"western", "eastern", "undefined"} \cup InheritedKeys) =>
        /\ ~cuRaised
        /\ cuResult = cuBefore
        /\ cuSignals = cuBefore

\* 'klingon' applied to signals with crossed arms and direct eye contact:
\* returned as they were.
C8_Witness ==
    /\ cuPc = "applied"
    /\ cuTag = "klingon"
    /\ ~cuRaised
    /\ cuResult = cuBefore
    /\ "gestures" \in DOMAIN cuBefore
    /\ Includes(cuBefore["gestures"].indicators, "crossed_arms")
    /\ "eye_movement" \in DOMAIN cuBefore
    /\ Includes(cuBefore["eye_movement"].indicators, "direct_eye_contact")

\* C9: after generateForensicReport, for every culturalContext, the caller's
\* AnalysisResult equals what it was before the call (in particular
\* signals.gestures.confidence and signals.eye_movement.indicators).
C9_CallerUnchanged ==
    cuPc = "reported" => cuSignals = cuBefore

\* A report made with a culture under which nothing is adjusted leaves the
\* caller's signals as they were.
C9_Witness ==
    /\ cuPc = "reported"
    /\ cuTag = "nordic"
    /\ cuSignals = cuBefore
    /\ "gestures" \in DOMAIN cuBefore
    /\ Includes(cuBefore["gestures"].indicators, "crossed_arms")

(***************************************************************************)
(* Claims on the export (SpecExport)                                       *)
(***************************************************************************)

\* C10: exportReport leaves the ForensicReport given to it as it was, for
\* every format and all options (in particular baselineCalibration's and
\* every phase's observations after a JSON export without raw data).
C10_ReportUnchanged ==
    exPc = "exported" => exReport = exBefore

\* C10, what the code does: the phases are never changed, and the report is
\* unchanged unless the export is JSON without raw data.
C10_WhatIsKept ==
    exPc = "exported" =>
        /\ exReport.analysisPhases = exBefore.analysisPhases
        /\ (exOptions.format # "json" \/ exOptions.includeRawData) => exReport = exBefore

\* A CSV export without raw data, with a threshold above an observation's
\* confidence, has left the report as it was.
C10_Witness ==
    /\ exPc = "exported"
    /\ exOptions.format = "csv"
    /\ ~exOptions.includeRawData
    /\ exOptions.confidenceThreshold = 750
    /\ Len(exBefore.baselineCalibration.observations) = 2
    /\ exBefore.baselineCalibration.observations[1].confidence = 700
    /\ exReport = exBefore

\* Reading property k of the parsed object gives the value the original holds:
\* a property the text leaves out reads as undefined.
SameValue(parsed, original, k) ==
    IF k \in DOMAIN parsed THEN parsed[k] = original[k]
    ELSE k \in OptionalKeys /\ original[k] = Undefined

ObservationsReproduced(parsed, original) ==
    /\ Len(parsed.observations) = Len(original.observations)
    /\ \A i \in 1..Len(original.observations) :
          /\ DOMAIN parsed.observations[i] \subseteq DOMAIN original.observations[i]
          /\ \A k \in DOMAIN original.observations[i] :
                SameValue(parsed.observations[i], original.observations[i], k)

RECURSIVE ColumnCounts(_, _, _)
ColumnCounts(text, inQuotes, n) ==
    IF text = << >> THEN <<n>>
    ELSE IF Head(text) = "\"" THEN ColumnCounts(Tail(text), ~inQuotes, n)
    ELSE IF Head(text) = "," /\ ~inQuotes THEN ColumnCounts(Tail(text), FALSE, n + 1)
    ELSE IF Head(text) = "\n" /\ ~inQuotes
         THEN <<n>> \o ColumnCounts(Tail(text), FALSE, 1)
    ELSE ColumnCounts(Tail(text), inQuotes, n)

\* A field as written: without comma, double quote or newline, or enclosed in
\* double quotes and read back as one column of one record.
WellQuoted(field) ==
    \/ ~(Includes(field, ",") \/ Includes(field, "\"") \/ Includes(field, "\n"))
    \/ /\ Len(field) >= 2
       /\ Head(field) = "\"" /\ field[Len(field)] = "\""
       /\ ColumnCounts(field, FALSE, 1) = <<1>>

\* C12: every field written into a row is quoted, with its double quotes
\* doubled, when it holds a comma, a double quote or a newline, so that the
\* text reads back as rows of 9 columns each.
C12_EveryRowNineColumns ==
    csvPc = "generated" =>
        /\ \A i \in 1..Len(csvRows) : \A j \in 1..9 : WellQuoted(csvRows[i][j])
        /\ ColumnCounts(csvData, FALSE, 1) = [i \in 1..Len(csvRows) |-> 9]

\* C12, what the code does: element, observation and interpretation are
\* quoted in every row, and a text whose other fields hold no comma, double
\* quote or newline reads back as rows of 9 columns each.
C12_EscapedFields ==
    csvPc = "generated" =>
        /\ \A i \in 1..Len(csvRows) :
              /\ Len(csvRows[i]) = 9
              /\ \A j \in {3, 4, 5} : WellQuoted(csvRows[i][j])
        /\ (\A i \in 1..Len(csvRows) : \A j \in {1, 2, 7, 8, 9} :
                WellQuoted(csvRows[i][j]))
           => ColumnCounts(csvData, FALSE, 1) = [i \in 1..Len(csvRows) |-> 9]

\* A baseline row whose element is a,b"c, whose observation has two lines
\* and whose apiSource is a,b: the first two are quoted, the third is not.
C12_Witness ==
    /\ csvPc = "generated"
    /\ Len(csvRows) = 2
    /\ csvRows[2][1] = <<"Baseline">>
    /\ csvRows[2][3] = <<"\"", "a", ",", "b", "\"", "\"", "c", "\"">>
    /\ csvRows[2][4] = <<"\"", "x", "\n", "y", "\"">>
    /\ csvRows[2][7] = <<"a", ",", "b">>
    /\ ColumnCounts(csvData, FALSE, 1) = <<9, 10>>

(***************************************************************************)
(* Claims on the recommendations (SpecRecommendations)                     *)
(***************************************************************************)

\* C13: for every skepticismLevel, engagementLevel and contextPreset,
\* generateRecommendations returns at least 1 and at most 3 entries.
C13_OneToThree ==
    (recPc = "returned" /\ recPreset # "live") => Len(recommendations) \in 1..3

\* C13 as amended: at most 3 entries, in the order of their priorities, and
\* none exactly when skepticismLevel is 'Low', engagementLevel is not 'High'
\* and contextPreset is none of interview, negotiation and presentation.
C13_ZeroToThree ==
    recPc = "returned" =>
        /\ Len(recommendations) \in 0..3
        /\ Len(recommendations) = 0 <=>
              /\ recSummary.skepticismLevel = "Low"
              /\ recSummary.engagementLevel # "High"
              /\ recPreset \notin {"interview", "negotiation", "presentation"}
        /\ \A i, j \in 1..Len(recommendations) :
              (recommendations[i].priority = "Medium"
               /\ recommendations[j].priority = "High") => j < i

\* Three entries: a negotiation with skepticism and high engagement, the
\* 'High' entry first.
C13_Witness ==
    /\ recPc = "returned"
    /\ recPreset = "negotiation"
    /\ recSummary.skepticismLevel = "Moderate"
    /\ recSummary.engagementLevel = "High"
    /\ Len(recommendations) = 3
    /\ recommendations[1].priority = "High"

(***************************************************************************)
(* Claims on the analyses of the forensic report (SpecReport)              *)
(***************************************************************************)

\* The phase of that name has an observation of that cue at that time.
Observed(phases, phaseName, cue, time) ==
    \E p \in 1..Len(phases) :
        /\ phases[p].phaseName = phaseName
        /\ \E o \in 1..Len(phases[p].observations) :
              /\ phases[p].observations[o].cue = cue
              /\ "timestamp" \in DOMAIN phases[p].observations[o]
              /\ phases[p].observations[o].timestamp = time

\* C14: an event of the timeline later than 10s and not later than 30s whose
\* text mentions leaning forward and a smile gives the Engagement Phase a
\* 'Forward Lean & Micro-Nods' observation and, through the smile, the
\* Positive Reinforcement Moments phase an observation of its own.
C14_TwoPhases ==
    arPc = "phases" =>
        \A i \in 1..Len(arTimeline) :
            (/\ parseTimeToSeconds(arTimeline[i].time) > 10
             /\ parseTimeToSeconds(arTimeline[i].time) <= 30
             /\ arTimeline[i].event = "Subject leans forward with a genuine smile")
            => /\ \E t \in {e.time : e \in TimelineEvents} :
                     Observed(arPhases, "Engagement Phase", "Forward Lean & Micro-Nods", t)
               /\ Observed(arPhases, "Positive Reinforcement Moments", "Genuine Smile",
                           arTimeline[i].time)

\* The event at 00:30, after an event of the baseline and before one of the
\* challenge phase, is observed in both phases.
C14_Witness ==
    /\ arPc = "phases"
    /\ Len(arTimeline) = 3
    /\ arTimeline[1].time = <<0, 2>>
    /\ arTimeline[2].time = <<0, 30>>
    /\ arTimeline[3].time = <<0, 31>>
    /\ Len(arPhases) = 3
    /\ Observed(arPhases, "Engagement Phase", "Forward Lean & Micro-Nods", <<0, 30>>)
    /\ Observed(arPhases, "Positive Reinforcement Moments", "Genuine Smile", <<0, 30>>)

\* The signal whose analysis put an event on the timeline, by the event's
\* apiCall (analysisEngine.ts 161-300); none for the other events.
SignalOf(apiCall) ==
    CASE apiCall \in {"google-vision-init", "google-vision-faces"} -> "facial_expression"
      [] apiCall \in {"openai-whisper-init", "openai-audio-analysis"} -> "voice_tone"
      [] apiCall \in {"google-video-init", "google-video-analysis"} -> "posture"
      [] apiCall = "google-vision-gesture-analysis" -> "gestures"
      [] apiCall = "internal-eye-tracking" -> "eye_movement"
      [] OTHER -> "none"

PointsOf(signalKey) ==
    {i \in 1..Len(arTimeline) : SignalOf(arTimeline[i].apiCall) = signalKey}

\* C15: analyzeTemporalPatterns emits a pattern for a signal only when the
\* timeline holds at least 3 points of that signal.
C15_ThreePointsPerSignal ==
    arPc = "patterns" =>
        \A p \in 1..Len(arPatterns) : Cardinality(PointsOf(arPatterns[p].signal)) >= 3

\* C15, what the code does: with 3 events or more on the timeline every
\* signal gets a pattern, over all the events; with fewer none does.
C15_ThreeEventsInAll ==
    arPc = "patterns" =>
        IF Len(arTimeline) >= 3
        THEN /\ [p \in 1..Len(arPatterns) |-> arPatterns[p].signal] = CanonicalKeys
             /\ \A p \in 1..Len(arPatterns) :
                   Len(arPatterns[p].timePoints) = Len(arTimeline)
        ELSE arPatterns = << >>

\* Three events, none of them of the voice analysis, and a pattern for
\* voice_tone all the same.
C15_Witness ==
    /\ arPc = "patterns"
    /\ Len(arTimeline) = 3
    /\ PointsOf("voice_tone") = {}
    /\ \E p \in 1..Len(arPatterns) :
          arPatterns[p].signal = "voice_tone" /\ Len(arPatterns[p].timePoints) = 3

C17_FailureIgnored ==
    [][/\ pc = "supabase" =>
             /\ pc' = "github"
             /\ UNCHANGED <<signals, alerts, timeline>>
             /\ analysisData' =
                  IF "storeAnalysis" \in failed'
                  THEN analysisData
                  ELSE [analysisData EXCEPT !.supabaseId = analysisData'.supabaseId]
       /\ pc = "github" =>
             /\ pc' = "return"
             /\ UNCHANGED <<signals, alerts, timeline>>
             /\ connected["github"] => invoked'["createAnalysisReport"] = 1
             /\ analysisData' =
                  IF "createAnalysisReport" \in failed'
                  THEN analysisData
                  ELSE [analysisData EXCEPT !.githubUrl = analysisData'.githubUrl]
       /\ pc = "return" =>
             /\ returned' = "result"
             /\ result' = ResultOf(analysisData, signals, alerts, timeline, contextPreset)
             /\ "storeAnalysis" \in failed => result'.supabaseId = ""
             /\ "createAnalysisReport" \in failed => result'.githubUrl = ""]_vars

\* An uploaded-media session has returned a result whose supabaseId is absent
\* because the persistence call failed; the archival call that followed
\* succeeded.
C17_Witness ==
    /\ pc = "returned"
    /\ entry = "upload"
    /\ returned = "result"
    /\ "storeAnalysis" \in failed
    /\ result.supabaseId = ""
    /\ invoked["createAnalysisReport"] = 1
    /\ result.githubUrl = "report-url"

\* C18: within one session every adapter operation is invoked at most once,
\* and an operation that failed has been invoked exactly once: a failed
\* call is not retried.
C18_AtMostOnce ==
    \A op \in Operations :
        /\ invoked[op] <= 1
        /\ op \in failed => invoked[op] = 1

\* A live session has returned after calling all seven operations, the
\* facial analysis and the persistence call among the failed ones.
C18_Witness ==
    /\ pc = "returned"
    /\ entry = "live"
    /\ \A op \in Operations : invoked[op] = 1
    /\ {"analyzeFacialExpressions", "storeAnalysis"} \subseteq failed

(***************************************************************************)
(* Claims on the alerts (SpecSignals, Spec)                                *)
(***************************************************************************)

\* C19: generateAlerts emits at most one 'incongruence' alert, decided by
\* the population variance of the confidences that are numbers, here the
\* mean of the squares minus the square of the mean, (n*Q - S*S) / n^2 in
\* permille squared: no alert when the variance is at most 0.05, severity
\* 'medium' when it is above 0.05 and at most 0.1, severity 'high' when it
\* is above 0.1, and the alert's confidence is 1 - variance.
C19_IncongruenceByVariance ==
    fnPc = "alerts" =>
        LET Conf(i) == IF KeyOrder[i] \in DOMAIN fnSignals
                          /\ fnSignals[KeyOrder[i]].confidence /= NotANumber
                       THEN <<fnSignals[KeyOrder[i]].confidence>> ELSE << >>
            n == SeqSum([i \in 1..Len(KeyOrder) |-> Len(Conf(i))])
            S == SeqSum([i \in 1..Len(KeyOrder) |->
                           IF Conf(i) = << >> THEN 0 ELSE Conf(i)[1]])
            Q == SeqSum([i \in 1..Len(KeyOrder) |->
                           IF Conf(i) = << >> THEN 0 ELSE Conf(i)[1] * Conf(i)[1]])
            num == n * Q - S * S
            den == n * n * 1000000
            incongruence == SelectSeq(fnAlerts, LAMBDA a : a.type = "incongruence")
        IN  /\ Len(incongruence) <= 1
            /\ (n = 0 \/ 20 * num <= den) => incongruence = << >>
            /\ (n > 0 /\ 20 * num > den) =>
                  /\ Len(incongruence) = 1
                  /\ incongruence[1].severity =
                        IF 10 * num > den THEN "high" ELSE "medium"
                  /\ incongruence[1].confidence = <<n * (den - num), n * den>>

\* generateAlerts was applied to the five canonical signals and the
\* 'incongruence' alert it pushed has severity 'high'.
C19_Witness ==
    /\ fnPc = "alerts"
    /\ DOMAIN fnSignals = {CanonicalKeys[i] : i \in 1..Len(CanonicalKeys)}
    /\ \A k \in DOMAIN fnSignals : fnSignals[k].confidence /= NotANumber
    /\ \E i \in 1..Len(fnAlerts) :
          fnAlerts[i].type = "incongruence" /\ fnAlerts[i].severity = "high"

\* C20: in the result a live, uploaded-media or text session returns, the
\* alerts hold exactly one 'low-confidence' alert for each signal whose
\* confidence is below 0.6, a signal left at its default confidence 0
\* included, none for a signal at 0.6 or above, and none for anything that
\* is not a signal of the result.
C20_OneLowConfidencePerSignal ==
    (pc = "returned" /\ returned = "result") =>
        LET low == SelectSeq(result.alerts, LAMBDA a : a.type = "low-confidence")
            Of(k) == SelectSeq(low, LAMBDA a : a.signalType = k)
        IN  /\ \A k \in DOMAIN result.signals :
                  Len(Of(k)) = IF result.signals[k].confidence < 600 THEN 1 ELSE 0
            /\ \A i \in 1..Len(low) : low[i].signalType \in DOMAIN result.signals

\* An uploaded-media session without the Google Vision adapter has
\* returned: facial_expression is the default signal with confidence 0 and
\* the alerts hold its 'low-confidence' alert.
C20_Witness ==
    /\ pc = "returned"
    /\ entry = "upload"
    /\ returned = "result"
    /\ ~connected["google"]
    /\ result.signals["facial_expression"] = DefaultSignal
    /\ \E i \in 1..Len(result.alerts) :
          /\ result.alerts[i].type = "low-confidence"
          /\ result.alerts[i].signalType = "facial_expression"
          /\ result.alerts[i].confidence = <<0, 1000>>

(***************************************************************************)
(* Claims on the windows, the summary and the confidence note              *)
(***************************************************************************)

\* The windows detectSignalClusters made for the timeline, and the numbers of
\* the windows whose events (getSignalsInWindow) include the i-th event.
WindowsOfTimeline == createTimeWindows(arTimeline, 10)

WindowsHolding(i) ==
    {w \in 1..Len(WindowsOfTimeline) :
        /\ parseTimeToSeconds(arTimeline[i].time) >= WindowsOfTimeline[w].start
        /\ parseTimeToSeconds(arTimeline[i].time) < WindowsOfTimeline[w].end}

\* The windows do not overlap and each is at most 10 seconds wide.
DisjointWindows ==
    /\ \A w \in 1..Len(WindowsOfTimeline) :
          /\ WindowsOfTimeline[w].start < WindowsOfTimeline[w].end
          /\ WindowsOfTimeline[w].end - WindowsOfTimeline[w].start <= 10
    /\ \A v, w \in 1..Len(WindowsOfTimeline) :
          v < w => WindowsOfTimeline[v].end <= WindowsOfTimeline[w].start

\* C21 as stated: the windows used by detectSignalClusters do not overlap,
\* each is at most 10 seconds wide, and every timeline event falls in
\* exactly one window, the last event and the events of a timeline out of
\* chronological order included.
C21_WindowsPartition ==
    arPc = "clusters" =>
        /\ DisjointWindows
        /\ \A i \in 1..Len(arTimeline) : Cardinality(WindowsHolding(i)) = 1

\* C21, what the code does: the windows do not overlap and are at most 10
\* seconds wide; an event is in one window when its time is at or after the
\* time of the first element and before the time of the last element, and
\* in no window otherwise.
C21_WindowsUpToLast ==
    arPc = "clusters" =>
        /\ DisjointWindows
        /\ \A i \in 1..Len(arTimeline) :
              Cardinality(WindowsHolding(i)) =
                  IF /\ parseTimeToSeconds(arTimeline[i].time)
                          >= parseTimeToSeconds(arTimeline[1].time)
                     /\ parseTimeToSeconds(arTimeline[i].time)
                          < parseTimeToSeconds(arTimeline[Len(arTimeline)].time)
                  THEN 1 ELSE 0

\* Clusters were detected on a chronological timeline of three events at
\* three times; there are windows, and the last event is in none of them.
C21_Witness ==
    /\ arPc = "clusters"
    /\ Len(arTimeline) = 3
    /\ parseTimeToSeconds(arTimeline[1].time) < parseTimeToSeconds(arTimeline[2].time)
    /\ parseTimeToSeconds(arTimeline[2].time) < parseTimeToSeconds(arTimeline[3].time)
    /\ WindowsOfTimeline # << >>
    /\ WindowsHolding(3) = {}

\* How many observations of the phases have an implication that includes one
\* of the words.
RECURSIVE ObservationCount(_, _)
ObservationCount(phases, words) ==
    IF phases = << >> THEN 0
    ELSE Cardinality({o \in 1..Len(Head(phases).observations) :
                        ImplicationKeywords[Head(phases).observations[o].implication]
                            \cap words # {}})
         + ObservationCount(Tail(phases), words)

\* engagementLevel, skepticismLevel and opennessToNext are those of the
\* positive and negative counts over the phases.
LevelsCountedOver(phases) ==
    LET positive == ObservationCount(phases, {"positive", "interest", "approval"})
        negative == ObservationCount(phases, {"skeptic", "concern", "defensive"})
        total == SeqSum([i \in 1..Len(phases) |-> Len(phases[i].observations)])
    IN  /\ arSummary.engagementLevel = "High" <=> (total > 0 /\ 10 * positive > 7 * total)
        /\ arSummary.engagementLevel = "Low" <=> (total > 0 /\ 10 * positive <= 4 * total)
        /\ arSummary.skepticismLevel = "High" <=> negative > 3
        /\ arSummary.skepticismLevel = "Low" <=> negative <= 1
        /\ arSummary.opennessToNext = "Excellent" <=> positive > 2 * negative
        /\ arSummary.opennessToNext = "Fair" <=> positive = negative
        /\ arSummary.opennessToNext = "Poor" <=> positive < negative

\* C22 as stated: the counts behind the summary judgment are taken over the
\* observations of the baseline calibration phase and of every analysis
\* phase, so a baseline observation whose interpretation contains
\* 'defensive' or 'skeptic' counts as negative.
C22_CountedWithBaseline ==
    arPc = "phases" => LevelsCountedOver(<<arBaseline>> \o arPhases)

\* C22, what the code does: the counts are taken over the observations of
\* the analysis phases only; the baseline calibration phase is not counted.
C22_CountedOverAnalysisPhases ==
    arPc = "phases" => LevelsCountedOver(arPhases)

\* The report of a result with a closed posture and a smile in its timeline:
\* the baseline has its 'Defensive or skeptical starting position'
\* observation, the reinforcement phase one approval, and opennessToNext is
\* 'Excellent' (one positive, no negative), not 'Fair'.
C22_Witness ==
    /\ arPc = "phases"
    /\ \E o \in 1..Len(arBaseline.observations) :
          arBaseline.observations[o].implication = "Defensive or skeptical starting position"
    /\ ObservationCount(arPhases, {"positive", "interest", "approval"}) = 1
    /\ ObservationCount(arPhases, {"skeptic", "concern", "defensive"}) = 0
    /\ arSummary.opennessToNext = "Excellent"

\* The number of distinct apiSource values of the signals of the result.
ActiveAPIs == Cardinality({result.signals[k].apiSource : k \in DOMAIN result.signals})

\* C23 as stated: the confidence note of the report of a live session's
\* result is the multi-modal high-confidence paragraph when the result has a
\* voice_tone signal and at least 3 distinct apiSource values, the
\* visual-only paragraph when it has at least 2, and the limited-data
\* paragraph otherwise; the note of a text session's result is the
\* limited-data paragraph.
C23_NoteBySources ==
    (pc = "returned" /\ forensicReport # NoReport) =>
        /\ entry = "live" =>
              forensicReport.confidenceNote =
                  IF "voice_tone" \in DOMAIN result.signals /\ ActiveAPIs >= 3
                  THEN "high confidence (~85-90% accuracy)"
                  ELSE IF ActiveAPIs >= 2 THEN "highly predictive (~70-75% accuracy)"
                  ELSE "moderate (~60-65%)"
        /\ entry = "text" => forensicReport.confidenceNote = "moderate (~60-65%)"

\* C23, what the code does: performComprehensiveAnalysis leaves mediaType
\* unset and the text analysis sets 'text', so the report of every result
\* of the engine has the limited-data paragraph.
C23_AlwaysLimitedData ==
    (pc = "returned" /\ forensicReport # NoReport) =>
        /\ result.mediaType \in {"", "text"}
        /\ forensicReport.confidenceNote = "moderate (~60-65%)"

\* The report of a live session's result in which every adapter answered:
\* voice_tone is there with five distinct apiSource values, and the note is
\* the limited-data paragraph.
C23_Witness ==
    /\ pc = "returned"
    /\ entry = "live"
    /\ failed = {}
    /\ forensicReport # NoReport
    /\ result.signals["voice_tone"].apiSource = "openai-whisper"
    /\ ActiveAPIs = 5
    /\ forensicReport.confidenceNote = "moderate (~60-65%)"

\* C30: every timeline event of a result of performComprehensiveAnalysis (a
\* live or uploaded-media session) has a time of at most 5 seconds, so in
\* the report built from it the engagement, challenge and decision buckets
\* are empty: analysisPhases holds at most the Positive Reinforcement
\* Moments phase, and the indicators computed from the decision events
\* (head shake, shoulder shrug, closing behaviors) are 'Absent'.
C30_AllInBaseline ==
    (pc = "returned" /\ returned = "result" /\ entry \in {"live", "upload"}) =>
        /\ \A i \in 1..Len(result.timeline) :
              result.timeline[i].time[1] = 0 /\ result.timeline[i].time[2] <= 5
        /\ forensicReport # NoReport =>
              /\ \A p \in 1..Len(forensicReport.analysisPhases) :
                    forensicReport.analysisPhases[p].phaseName
                        = "Positive Reinforcement Moments"
              /\ \A d \in {1, 2, 4} :
                    forensicReport.decisionIndicators[d].presence = "Absent"

\* The report of an uploaded-media session's result whose timeline holds
\* the events of all four analyses, the latest at 00:04: no analysis phase,
\* no decision indicator of the decision events.
C30_Witness ==
    /\ pc = "returned"
    /\ entry = "upload"
    /\ forensicReport # NoReport
    /\ Len(result.timeline) >= 10
    /\ \E i \in 1..Len(result.timeline) :
          /\ result.timeline[i].time = <<0, 4>>
          /\ result.timeline[i].event = "Full body posture detected with gesture analysis"
    /\ forensicReport.analysisPhases = << >>
    /\ forensicReport.decisionIndicators[4].presence = "Absent"

(***************************************************************************)
(* Claims on the results of the sessions (Spec)                            *)
(***************************************************************************)

\* The timeline of the result has a 'Claude Code analysis completed' entry.
ClaudeEntry ==
    \E i \in 1..Len(result.timeline) :
        result.timeline[i].event = "Claude Code analysis completed"

\* C24 as stated: when the Claude Code service is connected, every result of
\* performComprehensiveAnalysis has claudeCodeGenerated = true, a
\* claudeAnalysis narrative and a 'Claude Code analysis completed' entry in
\* its timeline.
C24_ClaudeGenerated ==
    (/\ pc = "returned" /\ returned = "result" /\ entry \in {"live", "upload"}
     /\ connected["claudeCode"])
    => /\ result.claudeCodeGenerated
       /\ result.claudeAnalysis # ""
       /\ ClaudeEntry

\* C24, what the code does: the call is made and throws, since the signals
\* of the engine have none of the keys the service reads; the result has
\* claudeCodeGenerated = false, no narrative and no such entry.
C24_ClaudeAlwaysFails ==
    (/\ pc = "returned" /\ returned = "result" /\ entry \in {"live", "upload"}
     /\ connected["claudeCode"])
    => /\ invoked["generateAnalysis"] = 1
       /\ "generateAnalysis" \in failed
       /\ ~result.claudeCodeGenerated
       /\ result.claudeAnalysis = ""
       /\ ~ClaudeEntry

\* A live session with every service connected and no analysis adapter
\* failing has returned its result, without a narrative.
C24_Witness ==
    /\ pc = "returned"
    /\ returned = "result"
    /\ entry = "live"
    /\ \A s \in Services : connected[s]
    /\ failed = {"generateAnalysis"}
    /\ ~result.claudeCodeGenerated

\* C25 as stated: the result of stopLiveAnalysis has the contextPreset that
\* was passed to the startLiveAnalysis of the session.
C25_PresetOfStart ==
    (pc = "returned" /\ entry = "live" /\ returned = "result")
    => result.contextPreset = startPreset

\* C25, what the code does: stopLiveAnalysis passes the literal 'live' to
\* performComprehensiveAnalysis, whatever preset the session was started
\* with.
C25_PresetIsLive ==
    (pc = "returned" /\ entry = "live" /\ returned = "result")
    => result.contextPreset = "live"

\* A live session started with the preset 'interview' has returned its
\* result, whose contextPreset is 'live'.
C25_Witness ==
    /\ pc = "returned"
    /\ entry = "live"
    /\ returned = "result"
    /\ startPreset = "interview"
    /\ result.contextPreset = "live"

\* The condition of the API Error Warning banner of the UI on analysisData.
ApiErrorBanner(data) ==
    \E k \in DOMAIN data.signals : data.signals[k].apiSource = "failed"

\* C29: no result of the engine (live, uploaded media or text session, with
\* any combination of adapter failures) has a signal whose apiSource is
\* 'failed', so the condition of the banner never holds for it.
C29_NoFailedSource ==
    (pc = "returned" /\ returned = "result") => ~ApiErrorBanner(result)

\* The result of an uploaded-media session in which the audio and the video
\* adapter failed: the signals are the fallback literals, marked 'fallback'.
C29_Witness ==
    /\ pc = "returned"
    /\ returned = "result"
    /\ entry = "upload"
    /\ {"analyzeAudio", "analyzeVideo"} \subseteq failed
    /\ result.signals["voice_tone"].apiSource = "fallback"
    /\ result.signals["posture"].apiSource = "fallback"
    /\ ~ApiErrorBanner(result)

(***************************************************************************)
(* Claims on overlapping sessions (SpecSessions)                           *)
(***************************************************************************)

\* C26 as stated: each AnalysisResult carries the sessionId that was
\* assigned when its own session started, also when another session is
\* started on the engine while the first one awaits its adapter calls.
C26_OwnSessionId ==
    \A c \in SessionCalls :
        ssCalls[c].returned = "result" => ssCalls[c].sessionId = ssCalls[c].own

\* C26, what the code does: the result carries the sessionId of the session
\* started last on the engine before the result was built, which is the
\* session's own or that of a later one.
C26_SessionIdOfLatestStart ==
    \A c \in SessionCalls :
        ssCalls[c].returned = "result"
        => /\ ssCalls[c].startsAtBuild \in ssCalls[c].order..Len(ssStarted)
           /\ ssCalls[c].sessionId = ssStarted[ssCalls[c].startsAtBuild]

\* An uploaded-media session has returned a result that carries the
\* sessionId of a text session started while it awaited its adapters.
C26_Witness ==
    \E c, d \in SessionCalls :
        /\ ssCalls[c].kind = "upload"
        /\ ssCalls[c].returned = "result"
        /\ ssCalls[d].kind = "text"
        /\ ssCalls[d].order > ssCalls[c].order
        /\ ssCalls[c].sessionId = ssCalls[d].own
        /\ ssCalls[c].sessionId[1] = "blindspot_text_"

(***************************************************************************)
(* Claims on the usage limit of the edge function (SpecUsage)              *)
(***************************************************************************)

\* No request is in flight.
Quiescent == \A r \in Requests : ~InFlight(r)

\* C27 as stated: with the requests of the user coming one after the other
\* (and every upsert answered without error), the number of served requests
\* is at most the limit divided by the cost of a request.
C27_ServedWithinLimit ==
    (~efOverlapped /\ ~efUpdateFailed)
    => efServed <= MONTHLY_LIMIT \div API_COST_PER_REQUEST

\* C27, what the code does: the upsert is left out when the cost read plus
\* the cost of the request is above the limit, so total_cost stays below
\* the limit and no request is rejected for the limit.
C27_LimitNeverReached ==
    /\ efRow.total_cost < MONTHLY_LIMIT
    /\ \A r \in Requests : efRequests[r].error # "Monthly API limit exceeded"

\* Requests came one after the other, every upsert that was made succeeded,
\* and more requests were served than fit under the limit, the last ones
\* unrecorded.
C27_Witness ==
    /\ ~efOverlapped
    /\ ~efUpdateFailed
    /\ Quiescent
    /\ efServed = (MONTHLY_LIMIT \div API_COST_PER_REQUEST) + 2
    /\ efRow.request_count = MONTHLY_LIMIT \div API_COST_PER_REQUEST
    /\ \A r \in Requests : efRequests[r].status = 200

\* C28 as stated: every served request is recorded; after n served requests
\* request_count is n and total_cost is n times the cost of a request, also
\* when requests overlap.
C28_EveryServedRecorded ==
    Quiescent
    => /\ efRow.request_count = efServed
       /\ efRow.total_cost = efServed * API_COST_PER_REQUEST

\* C28, what the code does: the row counts at most the served requests, and
\* its total_cost is the cost of the requests it counts.
C28_AtMostServedRecorded ==
    Quiescent
    => /\ efRow.request_count <= efServed
       /\ efRow.total_cost = efRow.request_count * API_COST_PER_REQUEST

\* Far from the limit, with no upsert failing, three overlapping requests
\* were served and the row counts one.
C28_Witness ==
    /\ Quiescent
    /\ ~efUpdateFailed
    /\ efOverlapped
    /\ efServed = 3
    /\ efRow.request_count = 1
    /\ efRow.total_cost = API_COST_PER_REQUEST

=============================================================================
